---- MODULE Spec2Model ----
(***************************************************************************)
(* OGraph (src/src/ograph.rs): an adjacency-list graph stored in two       *)
(* vectors, nodes and edges.  Every edge is one entry of the edge vector   *)
(* and is threaded on two singly linked chains: the outgoing chain of its  *)
(* source and the incoming chain of its target.  Indices are 0-based as in *)
(* the source; the vectors are TLA+ sequences, so slot i is v[i + 1].      *)
(***************************************************************************)
EXTENDS Integers, Sequences, FiniteSets, TLC

\* ---------------------------------------------------------------- bounds
MaxNodes == 3
MaxEdges == 3
MaxData == 2
MaxWeight == 2
\* nodes and edges together
MaxSize == 5
\* The largest number of elements of a UnionFind explored on its own.
MaxElems == 4

\* EDGE_END is uint::MAX in the source; here the largest integer TLC represents.
EDGE_END == 2147483647

Outgoing == 0
Incoming == 1

\* A two-element array indexed by 0 and 1 ([EdgeIndex; 2], [NodeIndex; 2]).
Arr2(x, y) == (0 :> x @@ 1 :> y)

\* Option<T>
None == <<>>
Some(x) == <<x>>
IsSome(o) == o # <<>>
Unwrap(o) == o[1]

\* slice.get(i) is present iff i < len
InRange(v, i) == i >= 0 /\ i < Len(v)

NodeDataSet == 1..MaxData
WeightSet == 1..MaxWeight

VARIABLES
    nodes,      \* Vec<Node<N>>: [data, next]
    edges,      \* Vec<Edge<E>>: [data, next, node] and the ghost field stamp
    directed,   \* the EdgeType parameter: TRUE for Directed
    status,     \* "ok", or "panic" once a call has panicked
    dbg,        \* TRUE once a debug_assert! has failed
    adds,       \* ghost: while only add_node and add_edge have been called,
                \* the number of calls of each that returned
    uf,         \* a UnionFind explored on its own (SpecUF)
    merges      \* ghost: the number of calls of union on uf that returned true

vars == <<nodes, edges, directed, status, dbg, adds, uf, merges>>

\* Index arguments handed to the operations: every valid index, the first
\* index that is out of range and, for edges, the sentinel.
NodeArgs == 0..Len(nodes)
EdgeArgs == (0..Len(edges)) \cup {EDGE_END}

\* The graphs the model builds: at most MaxNodes nodes, MaxEdges edges.
CanGrow(n, m) == n <= MaxNodes /\ m <= MaxEdges /\ n + m <= MaxSize

\* ------------------------------------------------------------ Vec helpers
\* Vec::swap_remove: the last element takes the place of element i.
swap_remove(v, i) ==
    LET n == Len(v) IN
    [j \in 1..(n - 1) |-> IF j = i + 1 THEN v[n] ELSE v[j]]

\* ------------------------------------------------------------ index_twice
\* Mutant: the test a == b is left out, equal indices in range give two
\* views.
index_twice_no_eq(slc, a, b) ==
    IF a >= Len(slc) \/ b >= Len(slc)
    THEN [kind |-> "None", a |-> a, b |-> b]
    ELSE [kind |-> "Both", a |-> a, b |-> b]

\* The mutable views are named by their indices.
index_twice(slc, a, b) ==
    IF a = b
    THEN IF InRange(slc, a) THEN [kind |-> "One", a |-> a, b |-> a]
                            ELSE [kind |-> "None", a |-> a, b |-> b]
    ELSE IF a >= Len(slc) \/ b >= Len(slc)
         THEN [kind |-> "None", a |-> a, b |-> b]
         ELSE [kind |-> "Both", a |-> a, b |-> b]

\* ------------------------------------------------------------ ghost stamps
\* stamp orders the edges by the time of their insertion (larger = later).
\* It is kept as a rank 1..edge_count so that the state space stays finite.
NextStamp(es) == Len(es) + 1

Restamp(es) ==
    [i \in 1..Len(es) |->
        [es[i] EXCEPT !.stamp =
            Cardinality({j \in 1..Len(es) : es[j].stamp <= es[i].stamp})]]

\* A graph value: the two vectors, and whether a debug assertion failed.
Graph(ns, es, d) == [nodes |-> ns, edges |-> es, dbg |-> d]

\* ---------------------------------------------------------------- add_node
\* Mutant: the index is read after the push.
add_node_ret_after_push(g, data) ==
    LET node == [data |-> data, next |-> Arr2(EDGE_END, EDGE_END)]
        ns == Append(g.nodes, node)
    IN [g |-> [g EXCEPT !.nodes = ns], ret |-> Len(ns), panic |-> FALSE]

add_node(g, data) ==
    LET node == [data |-> data, next |-> Arr2(EDGE_END, EDGE_END)]
        node_idx == Len(g.nodes)
    IN [g |-> [g EXCEPT !.nodes = Append(g.nodes, node)],
        ret |-> node_idx, panic |-> FALSE]

\* Mutant: the index wraps around the length.
node_wrapped(g, a) ==
    IF Len(g.nodes) = 0 THEN None
    ELSE Some(g.nodes[(a % Len(g.nodes)) + 1].data)

\* Access node data for node a.
node(g, a) == IF InRange(g.nodes, a) THEN Some(g.nodes[a + 1].data) ELSE None

edge_weight(g, e) == IF InRange(g.edges, e) THEN Some(g.edges[e + 1].data) ELSE None

node_count(g) == Len(g.nodes)
edge_count(g) == Len(g.edges)

\* ---------------------------------------------------------------- add_edge
\* Mutant: the edge is pushed before the indices are checked.
add_edge_push_first(g, a, b, data) ==
    LET edge_idx == Len(g.edges)
        pair == index_twice(g.nodes, a, b)
        hd(n, k) == IF InRange(g.nodes, n) THEN g.nodes[n + 1].next[k] ELSE EDGE_END
        edge == [data |-> data, node |-> Arr2(a, b),
                 next |-> Arr2(hd(a, 0), hd(b, 1)), stamp |-> NextStamp(g.edges)]
        g1 == [g EXCEPT !.edges = Append(g.edges, edge)]
    IN
    IF pair.kind = "None" THEN [g |-> g1, ret |-> edge_idx, panic |-> TRUE]
    ELSE [g |-> [g1 EXCEPT !.nodes[a + 1].next[0] = edge_idx,
                           !.nodes[b + 1].next[1] = edge_idx],
          ret |-> edge_idx, panic |-> FALSE]

\* Mutant: an edge a -> b that is already there is returned, none is added.
add_edge_dedup(g, a, b, data) ==
    LET same == {e \in 1..Len(g.edges) : g.edges[e].node = Arr2(a, b)}
        edge_idx == Len(g.edges)
    IN
    IF ~InRange(g.nodes, a) \/ ~InRange(g.nodes, b)
    THEN [g |-> g, ret |-> edge_idx, panic |-> TRUE]
    ELSE IF same # {}
    THEN [g |-> g, ret |-> (CHOOSE e \in same : TRUE) - 1, panic |-> FALSE]
    ELSE LET edge == [data |-> data, node |-> Arr2(a, b),
                      next |-> Arr2(g.nodes[a + 1].next[0], g.nodes[b + 1].next[1]),
                      stamp |-> NextStamp(g.edges)]
         IN [g |-> [g EXCEPT !.nodes[a + 1].next[0] = edge_idx,
                             !.nodes[b + 1].next[1] = edge_idx,
                             !.edges = Append(g.edges, edge)],
             ret |-> edge_idx, panic |-> FALSE]

\* Mutant: between two nodes the edge is linked behind the head of a's
\* outgoing chain, when there is one.
add_edge_behind_head(g, a, b, data) ==
    LET edge_idx == Len(g.edges)
        pair == index_twice(g.nodes, a, b)
    IN
    CASE pair.kind = "None" ->
            [g |-> g, ret |-> edge_idx, panic |-> TRUE]
      [] pair.kind = "One" ->
            LET an == g.nodes[pair.a + 1]
                edge == [data |-> data, node |-> Arr2(a, b), next |-> an.next,
                         stamp |-> NextStamp(g.edges)]
                ns == [g.nodes EXCEPT ![pair.a + 1].next = Arr2(edge_idx, edge_idx)]
            IN [g |-> [g EXCEPT !.nodes = ns, !.edges = Append(g.edges, edge)],
                ret |-> edge_idx, panic |-> FALSE]
      [] pair.kind = "Both" ->
            LET an == g.nodes[pair.a + 1]
                bn == g.nodes[pair.b + 1]
                head == an.next[0]
                edge == [data |-> data, node |-> Arr2(a, b),
                         next |-> Arr2(IF InRange(g.edges, head)
                                       THEN g.edges[head + 1].next[0]
                                       ELSE head,
                                       bn.next[1]),
                         stamp |-> NextStamp(g.edges)]
                ns == [g.nodes EXCEPT
                        ![pair.a + 1].next[0] =
                            IF InRange(g.edges, head) THEN head ELSE edge_idx,
                        ![pair.b + 1].next[1] = edge_idx]
                es == IF InRange(g.edges, head)
                      THEN [g.edges EXCEPT ![head + 1].next[0] = edge_idx]
                      ELSE g.edges
            IN [g |-> [g EXCEPT !.nodes = ns, !.edges = Append(es, edge)],
                ret |-> edge_idx, panic |-> FALSE]

\* Mutant: a self-loop is spliced into the outgoing chain only.
add_edge_loop_out_only(g, a, b, data) ==
    LET edge_idx == Len(g.edges)
        pair == index_twice(g.nodes, a, b)
    IN
    CASE pair.kind = "None" ->
            [g |-> g, ret |-> edge_idx, panic |-> TRUE]
      [] pair.kind = "One" ->
            LET an == g.nodes[pair.a + 1]
                edge == [data |-> data, node |-> Arr2(a, b), next |-> an.next,
                         stamp |-> NextStamp(g.edges)]
                ns == [g.nodes EXCEPT ![pair.a + 1].next[0] = edge_idx]
            IN [g |-> [g EXCEPT !.nodes = ns, !.edges = Append(g.edges, edge)],
                ret |-> edge_idx, panic |-> FALSE]
      [] pair.kind = "Both" ->
            LET an == g.nodes[pair.a + 1]
                bn == g.nodes[pair.b + 1]
                edge == [data |-> data, node |-> Arr2(a, b),
                         next |-> Arr2(an.next[0], bn.next[1]),
                         stamp |-> NextStamp(g.edges)]
                ns == [g.nodes EXCEPT ![pair.a + 1].next[0] = edge_idx,
                                      ![pair.b + 1].next[1] = edge_idx]
            IN [g |-> [g EXCEPT !.nodes = ns, !.edges = Append(g.edges, edge)],
                ret |-> edge_idx, panic |-> FALSE]

add_edge(g, a, b, data) ==
    LET edge_idx == Len(g.edges)
        pair == index_twice(g.nodes, a, b)
    IN
    CASE pair.kind = "None" ->
            [g |-> g, ret |-> edge_idx, panic |-> TRUE]
      [] pair.kind = "One" ->
            LET an == g.nodes[pair.a + 1]
                edge == [data |-> data, node |-> Arr2(a, b), next |-> an.next,
                         stamp |-> NextStamp(g.edges)]
                ns == [g.nodes EXCEPT ![pair.a + 1].next = Arr2(edge_idx, edge_idx)]
            IN [g |-> [g EXCEPT !.nodes = ns, !.edges = Append(g.edges, edge)],
                ret |-> edge_idx, panic |-> FALSE]
      [] pair.kind = "Both" ->
            LET an == g.nodes[pair.a + 1]
                bn == g.nodes[pair.b + 1]
                edge == [data |-> data, node |-> Arr2(a, b),
                         next |-> Arr2(an.next[0], bn.next[1]),
                         stamp |-> NextStamp(g.edges)]
                ns == [g.nodes EXCEPT ![pair.a + 1].next[0] = edge_idx,
                                      ![pair.b + 1].next[1] = edge_idx]
            IN [g |-> [g EXCEPT !.nodes = ns, !.edges = Append(g.edges, edge)],
                ret |-> edge_idx, panic |-> FALSE]

\* ------------------------------------------------------------ EdgesMut walks
\* EdgesMut::next reads the link to follow before the loop body changes the
\* edge, so the walk follows the links as they were.
RECURSIVE relink_walk(_, _, _, _, _)
relink_walk(es, cur, k, e, repl) ==
    IF ~InRange(es, cur) THEN es
    ELSE LET nxt == es[cur + 1].next[k]
             es2 == IF nxt = e THEN [es EXCEPT ![cur + 1].next[k] = repl] ELSE es
         IN relink_walk(es2, nxt, k, e, repl)

\* Mutant: only a chain head that points to e is patched.
change_edge_links_dir_head_only(g, edge_node, e, edge_next, k) ==
    LET n == edge_node[k]
        fst == g.nodes[n + 1].next[k]
    IN IF fst = e
       THEN [g EXCEPT !.nodes[n + 1].next[k] = edge_next[k]]
       ELSE g

\* One direction k of change_edge_links, on a graph whose endpoint is in range.
change_edge_links_dir(g, edge_node, e, edge_next, k) ==
    LET n == edge_node[k]
        fst == g.nodes[n + 1].next[k]
    IN IF fst = e
       THEN [g EXCEPT !.nodes[n + 1].next[k] = edge_next[k]]
       ELSE [g EXCEPT !.edges = relink_walk(g.edges, fst, k, e, edge_next[k])]

\* For edge e with endpoints edge_node, replace links to it with links to
\* edge_next.  A missing endpoint fails a debug assertion and returns early.
RECURSIVE change_edge_links_from(_, _, _, _, _)
change_edge_links_from(g, edge_node, e, edge_next, k) ==
    IF k > 1 THEN g
    ELSE IF ~InRange(g.nodes, edge_node[k]) THEN [g EXCEPT !.dbg = TRUE]
    ELSE change_edge_links_from(
            change_edge_links_dir(g, edge_node, e, edge_next, k),
            edge_node, e, edge_next, k + 1)

change_edge_links(g, edge_node, e, edge_next) ==
    change_edge_links_from(g, edge_node, e, edge_next, 0)

\* Mutant: the links to the edge that moved into slot e are left as they were.
remove_edge_adjust_indices_no_relink(g, e) ==
    LET edge == g.edges[e + 1]
        es == Restamp(swap_remove(g.edges, e))
    IN [g |-> [g EXCEPT !.edges = es], ret |-> Some(edge.data)]

remove_edge_adjust_indices(g, e) ==
    LET edge == g.edges[e + 1]
        es == Restamp(swap_remove(g.edges, e))
        g1 == [g EXCEPT !.edges = es]
    IN IF ~InRange(es, e)
       THEN [g |-> g1, ret |-> Some(edge.data)]
       ELSE LET swap == es[e + 1].node
                swapped_e == Len(es)
            IN [g |-> change_edge_links(g1, swap, swapped_e, Arr2(e, e)),
                ret |-> Some(edge.data)]

\* Mutant: an index that is out of range is taken for the last edge.
remove_edge_clamped(g, e) ==
    IF Len(g.edges) = 0 THEN [g |-> g, ret |-> None]
    ELSE LET e2 == IF InRange(g.edges, e) THEN e ELSE Len(g.edges) - 1
             edge_node == g.edges[e2 + 1].node
             edge_next == g.edges[e2 + 1].next
         IN remove_edge_adjust_indices(
                change_edge_links(g, edge_node, e2, edge_next), e2)

\* Remove an edge and return its edge weight, or None if it didn't exist.
remove_edge(g, e) ==
    IF ~InRange(g.edges, e) THEN [g |-> g, ret |-> None]
    ELSE LET edge_node == g.edges[e + 1].node
             edge_next == g.edges[e + 1].next
         IN remove_edge_adjust_indices(
                change_edge_links(g, edge_node, e, edge_next), e)
\* Mutant: the chain is walked along the next link read before each
\* removal, the head is not read again.
RECURSIVE remove_chain_stale_from(_, _, _)
remove_chain_stale_from(g, k, cur) ==
    IF cur = EDGE_END THEN g
    ELSE LET r == remove_edge(g, cur) IN
         IF ~IsSome(r.ret) THEN [g EXCEPT !.dbg = TRUE]
         ELSE remove_chain_stale_from(r.g, k, g.edges[cur + 1].next[k])

remove_chain_stale(g, a, k) ==
    remove_chain_stale_from(g, k, g.nodes[a + 1].next[k])

\* ------------------------------------------------------------- remove_node
\* The loop of remove_node for direction k: remove the head of chain k of a
\* until the head is EDGE_END.  A remove_edge that returns None fails the
\* debug assertion; the loop is cut there (the release build would spin).
RECURSIVE remove_chain(_, _, _)
remove_chain(g, a, k) ==
    LET next == g.nodes[a + 1].next[k] IN
    IF next = EDGE_END THEN g
    ELSE LET r == remove_edge(g, next) IN
         IF ~IsSome(r.ret) THEN [g EXCEPT !.dbg = TRUE]
         ELSE remove_chain(r.g, a, k)

\* Mutant: only the sources on the outgoing chain are rewritten.
RECURSIVE reindex_walk_src_only(_, _, _, _, _)
reindex_walk_src_only(g, cur, k, old_index, new_index) ==
    IF k # 0 \/ ~InRange(g.edges, cur) THEN g
    ELSE LET curedge == g.edges[cur + 1]
             g2 == [g EXCEPT !.edges[cur + 1].node[k] = new_index,
                             !.dbg = @ \/ curedge.node[k] # old_index]
         IN reindex_walk_src_only(g2, curedge.next[k], k, old_index, new_index)

\* The walk over chain k of the relocated node: node[k] becomes new_index.
RECURSIVE reindex_walk(_, _, _, _, _)
reindex_walk(g, cur, k, old_index, new_index) ==
    IF ~InRange(g.edges, cur) THEN g
    ELSE LET curedge == g.edges[cur + 1]
             g2 == [g EXCEPT !.edges[cur + 1].node[k] = new_index,
                             !.dbg = @ \/ curedge.node[k] # old_index]
         IN reindex_walk(g2, curedge.next[k], k, old_index, new_index)

\* Mutant: the edges of the relocated node keep its old index.
remove_node_no_reindex(g, a) ==
    IF ~InRange(g.nodes, a) THEN [g |-> g, ret |-> None]
    ELSE LET g1 == remove_chain(remove_chain(g, a, 0), a, 1)
         IN [g |-> [g1 EXCEPT !.nodes = swap_remove(g1.nodes, a)],
             ret |-> Some(g1.nodes[a + 1].data)]

\* Mutant: only the outgoing chain of a is emptied.
remove_node_out_only(g, a) ==
    IF ~InRange(g.nodes, a) THEN [g |-> g, ret |-> None]
    ELSE LET g1 == remove_chain(g, a, 0)
             n == g1.nodes[a + 1]
             ns == swap_remove(g1.nodes, a)
             g2 == [g1 EXCEPT !.nodes = ns]
         IN IF ~InRange(ns, a)
            THEN [g |-> g2, ret |-> Some(n.data)]
            ELSE LET swap_edges == ns[a + 1].next
                     g3 == reindex_walk(g2, swap_edges[0], 0, Len(ns), a)
                     g4 == reindex_walk(g3, swap_edges[1], 1, Len(ns), a)
                 IN [g |-> g4, ret |-> Some(n.data)]

remove_node(g, a) ==
    IF ~InRange(g.nodes, a) THEN [g |-> g, ret |-> None]
    ELSE LET g1 == remove_chain(remove_chain(g, a, 0), a, 1)
             n == g1.nodes[a + 1]
             ns == swap_remove(g1.nodes, a)
             g2 == [g1 EXCEPT !.nodes = ns]
         IN IF ~InRange(ns, a)
            THEN [g |-> g2, ret |-> Some(n.data)]
            ELSE LET swap_edges == ns[a + 1].next
                     old_index == Len(ns)
                     new_index == a
                     g3 == reindex_walk(g2, swap_edges[0], 0, old_index, new_index)
                     g4 == reindex_walk(g3, swap_edges[1], 1, old_index, new_index)
                 IN [g |-> g4, ret |-> Some(n.data)]

\* ---------------------------------------------------------------- lookups
\* The while-let loop of find_edge / find_any_edge over chain k from edix:
\* the first edge whose other endpoint node[1 - k] is b.
\* Mutant: the scan does not stop at the first match, the last one is kept.
RECURSIVE find_in_chain_last(_, _, _, _)
find_in_chain_last(es, edix, k, b) ==
    IF ~InRange(es, edix) THEN None
    ELSE LET rest == find_in_chain_last(es, es[edix + 1].next[k], k, b) IN
         IF IsSome(rest) THEN rest
         ELSE IF es[edix + 1].node[1 - k] = b THEN Some(edix) ELSE None

RECURSIVE find_in_chain(_, _, _, _)
find_in_chain(es, edix, k, b) ==
    IF ~InRange(es, edix) THEN None
    ELSE IF es[edix + 1].node[1 - k] = b THEN Some(edix)
    ELSE find_in_chain(es, es[edix + 1].next[k], k, b)

\* Mutant: only the outgoing chain of a is scanned.
find_any_edge_out_only(g, a, b) ==
    IF ~InRange(g.nodes, a) THEN None
    ELSE LET o == find_in_chain(g.edges, g.nodes[a + 1].next[0], 0, b)
         IN IF IsSome(o) THEN Some(<<Unwrap(o), Outgoing>>) ELSE None

\* Mutant: the incoming chain of a is scanned before the outgoing one.
find_any_edge_incoming_first(g, a, b) ==
    IF ~InRange(g.nodes, a) THEN None
    ELSE LET n == g.nodes[a + 1]
             o == find_in_chain(g.edges, n.next[0], 0, b)
             i == find_in_chain(g.edges, n.next[1], 1, b)
         IN IF IsSome(i) THEN Some(<<Unwrap(i), Incoming>>)
            ELSE IF IsSome(o) THEN Some(<<Unwrap(o), Outgoing>>)
            ELSE None

\* Lookup an edge between a and b, in either direction: Some(<<ix, d>>).
find_any_edge(g, a, b) ==
    IF ~InRange(g.nodes, a) THEN None
    ELSE LET n == g.nodes[a + 1]
             o == find_in_chain(g.edges, n.next[0], 0, b)
             i == find_in_chain(g.edges, n.next[1], 1, b)
         IN IF IsSome(o) THEN Some(<<Unwrap(o), Outgoing>>)
            ELSE IF IsSome(i) THEN Some(<<Unwrap(i), Incoming>>)
            ELSE None

\* Mutant: both chains are scanned whatever the edge type.
find_edge_any(g, dir, a, b) ==
    LET r == find_any_edge(g, a, b) IN
    IF IsSome(r) THEN Some(Unwrap(r)[1]) ELSE None

\* Mutant: the outgoing chain is scanned whatever the edge type.
find_edge_directed_only(g, dir, a, b) ==
    IF ~InRange(g.nodes, a) THEN None
    ELSE find_in_chain(g.edges, g.nodes[a + 1].next[0], 0, b)

\* Lookup an edge from a to b.
find_edge(g, dir, a, b) ==
    IF ~dir
    THEN LET r == find_any_edge(g, a, b) IN
         IF IsSome(r) THEN Some(Unwrap(r)[1]) ELSE None
    ELSE IF ~InRange(g.nodes, a) THEN None
         ELSE find_in_chain(g.edges, g.nodes[a + 1].next[0], 0, b)

\* ------------------------------------------------------------- update_edge
update_edge(g, dir, a, b, data) ==
    LET f == find_edge(g, dir, a, b) IN
    IF IsSome(f) /\ InRange(g.edges, Unwrap(f))
    THEN [g |-> [g EXCEPT !.edges[Unwrap(f) + 1].data = data],
          ret |-> Unwrap(f), panic |-> FALSE]
    ELSE add_edge(g, a, b, data)

\* --------------------------------------------------------------- iteration
\* Neighbors::next, collected: chain next[0] is followed to its end yielding
\* targets, then chain next[1] yielding sources.
RECURSIVE Neighbors(_, _)
Neighbors(es, next) ==
    IF InRange(es, next[0])
    THEN <<es[next[0] + 1].node[1]>>
            \o Neighbors(es, Arr2(es[next[0] + 1].next[0], next[1]))
    ELSE IF InRange(es, next[1])
    THEN <<es[next[1] + 1].node[0]>>
            \o Neighbors(es, Arr2(next[0], es[next[1] + 1].next[1]))
    ELSE <<>>

\* Mutant: a self-loop met on the incoming chain is not yielded again.
neighbors_both_once(g, a) ==
    LET next == IF InRange(g.nodes, a) THEN g.nodes[a + 1].next
                                       ELSE Arr2(EDGE_END, EDGE_END)
        Other(x) == x # a
    IN Neighbors(g.edges, Arr2(next[0], EDGE_END))
            \o SelectSeq(Neighbors(g.edges, Arr2(EDGE_END, next[1])), Other)

neighbors_both(g, a) ==
    Neighbors(g.edges,
              IF InRange(g.nodes, a) THEN g.nodes[a + 1].next
                                     ELSE Arr2(EDGE_END, EDGE_END))

\* Mutant: the wanted chain is the one cut off.
neighbors_directed_same_chain(g, dir, a, d) ==
    LET next == IF InRange(g.nodes, a) THEN g.nodes[a + 1].next
                                       ELSE Arr2(EDGE_END, EDGE_END)
    IN Neighbors(g.edges,
                 IF dir THEN [next EXCEPT ![d] = EDGE_END] ELSE next)

neighbors_directed(g, dir, a, d) ==
    LET next == IF InRange(g.nodes, a) THEN g.nodes[a + 1].next
                                       ELSE Arr2(EDGE_END, EDGE_END)
    IN Neighbors(g.edges,
                 IF dir THEN [next EXCEPT ![1 - d] = EDGE_END] ELSE next)

neighbors(g, dir, a) ==
    IF dir THEN neighbors_directed(g, dir, a, Outgoing) ELSE neighbors_both(g, a)

\* Edges::next, collected: the pairs <<neighbour, weight>> along chain
\* next[0], then along chain next[1].
RECURSIVE Edges(_, _)
Edges(es, next) ==
    IF InRange(es, next[0])
    THEN <<(<<es[next[0] + 1].node[1], es[next[0] + 1].data>>)>>
            \o Edges(es, Arr2(es[next[0] + 1].next[0], next[1]))
    ELSE IF InRange(es, next[1])
    THEN <<(<<es[next[1] + 1].node[0], es[next[1] + 1].data>>)>>
            \o Edges(es, Arr2(next[0], es[next[1] + 1].next[1]))
    ELSE <<>>

edges_both(g, a) ==
    Edges(g.edges,
          IF InRange(g.nodes, a) THEN g.nodes[a + 1].next
                                 ELSE Arr2(EDGE_END, EDGE_END))

\* OGraph::edges (the name edges is the edge vector here).
edges_of(g, dir, a) ==
    LET next == IF InRange(g.nodes, a) THEN g.nodes[a + 1].next
                                       ELSE Arr2(EDGE_END, EDGE_END)
    IN Edges(g.edges, IF dir THEN [next EXCEPT ![Incoming] = EDGE_END] ELSE next)

\* without_edges(dir), collected: WithoutEdges::next enumerates the node
\* vector in index order and yields the nodes whose next[k] is EDGE_END.
without_edges(g, k) ==
    LET Ends(n) == g.nodes[n + 1].next[k] = EDGE_END
    IN SelectSeq([i \in 1..Len(g.nodes) |-> i - 1], Ends)

\* --------------------------------------------------------------- UnionFind
\* A partition of 0..n-1: every element has a parent, a representative is
\* its own parent.
UnionFind_new(n) == [parent |-> [i \in 1..n |-> i - 1]]

\* The representative of the set of x.
RECURSIVE find(_, _)
find(u, x) ==
    IF u.parent[x + 1] = x THEN x ELSE find(u, u.parent[x + 1])

\* Mutant: the result tells whether the arguments differ, not their sets.
union_ret_by_args(u, x, y) ==
    LET xrep == find(u, x)
        yrep == find(u, y)
    IN IF xrep = yrep THEN [u |-> u, ret |-> x # y]
       ELSE [u |-> [u EXCEPT !.parent[xrep + 1] = yrep], ret |-> x # y]

\* Merge the sets of x and y; true iff they were two sets.
union(u, x, y) ==
    LET xrep == find(u, x)
        yrep == find(u, y)
    IN IF xrep = yrep THEN [u |-> u, ret |-> FALSE]
       ELSE [u |-> [u EXCEPT !.parent[xrep + 1] = yrep], ret |-> TRUE]

\* --------------------------------------------------------------- is_cyclic
\* Mutant: an edge from a node to itself is passed over.
RECURSIVE is_cyclic_skip_loops(_, _, _)
is_cyclic_skip_loops(es, i, edge_sets) ==
    IF i > Len(es) THEN FALSE
    ELSE IF es[i].node[0] = es[i].node[1]
    THEN is_cyclic_skip_loops(es, i + 1, edge_sets)
    ELSE LET r == union(edge_sets, es[i].node[0], es[i].node[1]) IN
         IF ~r.ret THEN TRUE ELSE is_cyclic_skip_loops(es, i + 1, r.u)

\* The for loop of is_cyclic from the edge in slot i - 1 on: the edges in
\* storage order, each one's source and target united.
RECURSIVE is_cyclic_from(_, _, _)
is_cyclic_from(es, i, edge_sets) ==
    IF i > Len(es) THEN FALSE
    ELSE LET r == union(edge_sets, es[i].node[0], es[i].node[1]) IN
         IF ~r.ret THEN TRUE ELSE is_cyclic_from(es, i + 1, r.u)

\* Treat the input graph as undirected.
is_cyclic(g) == is_cyclic_from(g.edges, 1, UnionFind_new(node_count(g)))

\* ------------------------------------------------------- min_spanning_tree
\* The orders in which the BinaryHeap of MinScored entries can pop the edges
\* of g: by ascending weight, equal weights in any order. An order is a
\* sequence of edge indices.
PopOrders(g) ==
    LET m == Len(g.edges) IN
    {p \in [1..m -> 0..(m - 1)] :
        /\ \A i, j \in 1..m : i # j => p[i] # p[j]
        /\ \A i, j \in 1..m :
                i < j => g.edges[p[i] + 1].data <= g.edges[p[j] + 1].data}

\* The mst skeleton: the nodes of g copied, from slot i - 1 on.
RECURSIVE mst_nodes(_, _, _)
mst_nodes(mst, ns, i) ==
    IF i > Len(ns) THEN mst
    ELSE mst_nodes(add_node(mst, ns[i].data).g, ns, i + 1)

\* Mutant: every popped edge is added.
RECURSIVE mst_loop_add_all(_, _, _, _, _)
mst_loop_add_all(g, order, i, subgraphs, mst) ==
    IF i > Len(order) THEN mst
    ELSE LET edge == g.edges[order[i] + 1]
             r == union(subgraphs, edge.node[0], edge.node[1])
         IN mst_loop_add_all(g, order, i + 1, r.u,
                    add_edge(mst, edge.node[0], edge.node[1], edge.data).g)

\* Kruskal's loop from the i-th pop on: the popped edge is added when it
\* joins two disjoint parts.
RECURSIVE mst_loop(_, _, _, _, _)
mst_loop(g, order, i, subgraphs, mst) ==
    IF i > Len(order) THEN mst
    ELSE LET edge == g.edges[order[i] + 1]
             r == union(subgraphs, edge.node[0], edge.node[1])
         IN mst_loop(g, order, i + 1, r.u,
                     IF r.ret
                     THEN add_edge(mst, edge.node[0], edge.node[1], edge.data).g
                     ELSE mst)

\* Mutant: the edges are taken in storage order, not by weight.
min_spanning_tree_unsorted(g, order) ==
    IF node_count(g) = 0 THEN Graph(<<>>, <<>>, FALSE)
    ELSE LET skeleton == mst_nodes(Graph(<<>>, <<>>, FALSE), g.nodes, 1)
             mst == mst_loop(g, [i \in 1..Len(g.edges) |-> i - 1], 1,
                             UnionFind_new(node_count(g)), skeleton)
         IN [mst EXCEPT !.dbg = ~(/\ node_count(mst) = node_count(g)
                                  /\ edge_count(mst) < node_count(g))]

\* Return a minimum spanning tree of g, the heap popping in the given order.
\* dbg tells whether one of the two closing debug_assert! failed.
min_spanning_tree(g, order) ==
    IF node_count(g) = 0 THEN Graph(<<>>, <<>>, FALSE)
    ELSE LET skeleton == mst_nodes(Graph(<<>>, <<>>, FALSE), g.nodes, 1)
             mst == mst_loop(g, order, 1,
                             UnionFind_new(node_count(g)), skeleton)
         IN [mst EXCEPT !.dbg = ~(/\ node_count(mst) = node_count(g)
                                  /\ edge_count(mst) < node_count(g))]

\* ---------------------------------------------------------------- toposort
\* Mutant: every outgoing neighbour is pushed.
toposort_push_unchecked(g, ordered, nix) ==
    neighbors_directed(g, TRUE, nix, Outgoing)

\* Mutant: a neighbour is pushed when some incoming neighbour is ordered.
toposort_push_any(g, ordered, nix) ==
    LET Ready(neigh) ==
            \E j \in 1..Len(neighbors_directed(g, TRUE, neigh, Incoming)) :
                neighbors_directed(g, TRUE, neigh, Incoming)[j] \in ordered
    IN SelectSeq(neighbors_directed(g, TRUE, nix, Outgoing), Ready)

\* The for loop of toposort: the outgoing neighbours of nix, in chain order,
\* whose incoming neighbours are all ordered.
toposort_push(g, ordered, nix) ==
    LET Ready(neigh) ==
            \A j \in 1..Len(neighbors_directed(g, TRUE, neigh, Incoming)) :
                neighbors_directed(g, TRUE, neigh, Incoming)[j] \in ordered
    IN SelectSeq(neighbors_directed(g, TRUE, nix, Outgoing), Ready)

\* The while loop of toposort: tovisit is a stack, popped at its end.
RECURSIVE toposort_loop(_, _, _, _)
toposort_loop(g, order, ordered, tovisit) ==
    IF tovisit = <<>> THEN order
    ELSE LET nix == tovisit[Len(tovisit)]
             rest == SubSeq(tovisit, 1, Len(tovisit) - 1)
         IN IF nix \in ordered
            THEN toposort_loop(g, order, ordered, rest)
            ELSE toposort_loop(g, Append(order, nix), ordered \cup {nix},
                               rest \o toposort_push(g, ordered \cup {nix}, nix))

\* toposort takes a directed graph only.
toposort(g) == toposort_loop(g, <<>>, {}, without_edges(g, Incoming))

\* ---------------------------------------------------------------- dijkstra
\* The orders in which the priority structure can pop entries of equal
\* distance: a ranking of the nodes, as a sequence.
TieOrders(g) ==
    LET n == Len(g.nodes) IN
    {p \in [1..n -> 0..(n - 1)] : \A i, j \in 1..n : i # j => p[i] # p[j]}

\* The entry <<distance, node>> popped next: the least distance, equal
\* distances by the ranking tie.
PopMin(heap, tie) ==
    LET Rank(n) == CHOOSE i \in 1..Len(tie) : tie[i] = n
    IN CHOOSE e \in heap :
        \A f \in heap :
            \/ e[1] < f[1]
            \/ e[1] = f[1] /\ Rank(e[2]) <= Rank(f[2])

\* Mutant: a distance once recorded for a neighbour is never improved.
RECURSIVE dijkstra_relax_first(_, _, _, _, _)
dijkstra_relax_first(pairs, i, node_score, scores, heap) ==
    IF i > Len(pairs) THEN [scores |-> scores, heap |-> heap]
    ELSE LET next == pairs[i][1]
             next_score == node_score + pairs[i][2]
         IN IF next \notin DOMAIN scores
            THEN dijkstra_relax_first(pairs, i + 1, node_score,
                                      (next :> next_score) @@ scores,
                                      heap \cup {<<next_score, next>>})
            ELSE dijkstra_relax_first(pairs, i + 1, node_score, scores, heap)

\* The relaxation of the pairs <<neighbour, weight>> of a finalized node,
\* from the i-th pair on: a candidate distance that improves the
\* neighbour's best is recorded and pushed.
RECURSIVE dijkstra_relax(_, _, _, _, _)
dijkstra_relax(pairs, i, node_score, scores, heap) ==
    IF i > Len(pairs) THEN [scores |-> scores, heap |-> heap]
    ELSE LET next == pairs[i][1]
             next_score == node_score + pairs[i][2]
         IN IF next \notin DOMAIN scores \/ next_score < scores[next]
            THEN dijkstra_relax(pairs, i + 1, node_score,
                                (next :> next_score) @@ scores,
                                heap \cup {<<next_score, next>>})
            ELSE dijkstra_relax(pairs, i + 1, node_score, scores, heap)

\* The loop: extract the minimum; skip it if finalized; otherwise finalize
\* it, exit if it is the goal, and relax its pairs. The neighbour function
\* is the graph's edges(n), as in test dijk.
RECURSIVE dijkstra_loop(_, _, _, _, _, _, _)
dijkstra_loop(g, dir, goal, tie, scores, visited, heap) ==
    IF heap = {} THEN [scores |-> scores, visited |-> visited]
    ELSE LET e == PopMin(heap, tie)
             rest == heap \ {e}
         IN IF e[2] \in visited
            THEN dijkstra_loop(g, dir, goal, tie, scores, visited, rest)
            ELSE IF goal = Some(e[2])
            THEN [scores |-> scores, visited |-> visited \cup {e[2]}]
            ELSE LET r == dijkstra_relax(edges_of(g, dir, e[2]), 1, e[1],
                                         scores, rest)
                 IN dijkstra_loop(g, dir, goal, tie, r.scores,
                                  visited \cup {e[2]}, r.heap)

\* The distance map, and the nodes finalized.
dijkstra_run(g, dir, start, goal, tie) ==
    dijkstra_loop(g, dir, goal, tie, (start :> 0), {}, {<<0, start>>})

dijkstra(g, dir, start, goal, tie) ==
    dijkstra_run(g, dir, start, goal, tie).scores

\* ------------------------------------------------------- generic traversal
\* The neighbours of n through a view: the graph itself, Reversed (the other
\* chain is consulted) or Undirected (both chains merged).
view_neighbors(g, dir, view, n) ==
    CASE view = "Graph" -> neighbors(g, dir, n)
      [] view = "Reversed" -> neighbors_directed(g, dir, n, Incoming)
      [] view = "Undirected" -> neighbors_both(g, n)

\* Mutant: a node taken from the frontier is visited even if it was before.
RECURSIVE walk_no_skip(_, _, _, _, _, _, _)
walk_no_skip(g, dir, view, fifo, visited, frontier, calls) ==
    IF frontier = <<>> THEN calls
    ELSE LET n == IF fifo THEN Head(frontier) ELSE frontier[Len(frontier)]
             rest == IF fifo THEN Tail(frontier)
                             ELSE SubSeq(frontier, 1, Len(frontier) - 1)
             New(x) == x \notin visited \cup {n}
         IN walk_no_skip(g, dir, view, fifo, visited \cup {n},
                 rest \o SelectSeq(view_neighbors(g, dir, view, n), New),
                 Append(calls, n))

\* The walk: a visited set and a frontier, first-in-first-out for
\* breadth-first, last-in-first-out for depth-first; calls is the sequence
\* of nodes the callback is invoked on (it never asks to stop).
RECURSIVE walk(_, _, _, _, _, _, _)
walk(g, dir, view, fifo, visited, frontier, calls) ==
    IF frontier = <<>> THEN calls
    ELSE LET n == IF fifo THEN Head(frontier) ELSE frontier[Len(frontier)]
             rest == IF fifo THEN Tail(frontier)
                             ELSE SubSeq(frontier, 1, Len(frontier) - 1)
             New(x) == x \notin visited \cup {n}
         IN IF n \in visited
            THEN walk(g, dir, view, fifo, visited, rest, calls)
            ELSE walk(g, dir, view, fifo, visited \cup {n},
                      rest \o SelectSeq(view_neighbors(g, dir, view, n), New),
                      Append(calls, n))

depth_first_search(g, dir, view, start) ==
    walk(g, dir, view, FALSE, {}, <<start>>, <<>>)

BreadthFirst(g, dir, view, start) ==
    walk(g, dir, view, TRUE, {}, <<start>>, <<>>)

\* ------------------------------------------------------------------ state
\* The graph as the operations above take it.
Cur == Graph(nodes, edges, dbg)

Init ==
    /\ nodes = <<>>
    /\ edges = <<>>
    /\ directed \in BOOLEAN
    /\ status = "ok"
    /\ dbg = FALSE
    /\ adds = [only |-> TRUE, add_node |-> 0, add_edge |-> 0]
    /\ uf = UnionFind_new(0)
    /\ merges = 0

\* The ghost count after a call of add_node (dn = 1) or add_edge (de = 1)
\* that returned, and after any other call.
Counted(dn, de) ==
    IF adds.only
    THEN [adds EXCEPT !.add_node = @ + dn, !.add_edge = @ + de]
    ELSE adds
Uncounted == [only |-> FALSE, add_node |-> 0, add_edge |-> 0]

\* The state after a call that returned r, or panicked.
Returns(r, panicked) ==
    /\ nodes' = r.g.nodes
    /\ edges' = r.g.edges
    /\ dbg' = r.g.dbg
    /\ status' = IF panicked THEN "panic" ELSE "ok"
    /\ UNCHANGED <<directed, uf, merges>>

\* No call is made on a graph once a call has panicked.
AddNode ==
    /\ status = "ok"
    /\ CanGrow(Len(nodes) + 1, Len(edges))
    /\ \E d \in NodeDataSet :
        /\ Returns(add_node(Cur, d), FALSE)
        /\ adds' = Counted(1, 0)

AddEdge ==
    /\ status = "ok"
    /\ CanGrow(Len(nodes), Len(edges) + 1)
    /\ \E a \in NodeArgs, b \in NodeArgs, w \in WeightSet :
        LET r == add_edge(Cur, a, b, w) IN
        /\ Returns(r, r.panic)
        /\ adds' = IF r.panic THEN adds ELSE Counted(0, 1)

UpdateEdge ==
    /\ status = "ok"
    /\ \E a \in NodeArgs, b \in NodeArgs, w \in WeightSet :
        LET r == update_edge(Cur, directed, a, b, w) IN
        /\ r.panic \/ CanGrow(Len(r.g.nodes), Len(r.g.edges))
        /\ Returns(r, r.panic)
        /\ adds' = Uncounted

RemoveEdge ==
    /\ status = "ok"
    /\ \E e \in EdgeArgs :
        /\ Returns(remove_edge(Cur, e), FALSE)
        /\ adds' = Uncounted

RemoveNode ==
    /\ status = "ok"
    /\ \E a \in NodeArgs :
        /\ Returns(remove_node(Cur, a), FALSE)
        /\ adds' = Uncounted

Next ==
    \/ AddNode
    \/ AddEdge
    \/ UpdateEdge
    \/ RemoveEdge
    \/ RemoveNode

Spec == Init /\ [][Next]_vars

\* ------------------------------------------------------ UnionFind on its own
\* A UnionFind over 1..MaxElems elements, next to an empty graph.
InitUF ==
    /\ nodes = <<>>
    /\ edges = <<>>
    /\ directed = TRUE
    /\ status = "ok"
    /\ dbg = FALSE
    /\ adds = [only |-> TRUE, add_node |-> 0, add_edge |-> 0]
    /\ uf \in {UnionFind_new(n) : n \in 1..MaxElems}
    /\ merges = 0

Elems == 0..(Len(uf.parent) - 1)

Union ==
    \E a \in Elems, b \in Elems :
        LET r == union(uf, a, b) IN
        /\ uf' = r.u
        /\ merges' = IF r.ret THEN merges + 1 ELSE merges
        /\ UNCHANGED <<nodes, edges, directed, status, dbg, adds>>

NextUF == Union

SpecUF == InitUF /\ [][NextUF]_vars

\* ================================================================ claims
\* What the claims speak of, read off the two vectors.
NodeIxs(g) == 0..(Len(g.nodes) - 1)
EdgeIxs(g) == 0..(Len(g.edges) - 1)
EdgeAt(g, e) == g.edges[e + 1]
NodeAt(g, n) == g.nodes[n + 1]

\* The edges whose endpoint in position k (0 source, 1 target) is n.
EdgesAt(g, n, k) == {e \in EdgeIxs(g) : EdgeAt(g, e).node[k] = n}
Incident(g, n) == EdgesAt(g, n, 0) \cup EdgesAt(g, n, 1)

\* The edge indices met from cur along the links next[k], at most fuel of
\* them, and the link on which the walk ends.
RECURSIVE Chain(_, _, _, _)
Chain(es, cur, k, fuel) ==
    IF fuel = 0 \/ ~InRange(es, cur) THEN <<>>
    ELSE <<cur>> \o Chain(es, es[cur + 1].next[k], k, fuel - 1)

RECURSIVE ChainEnd(_, _, _, _)
ChainEnd(es, cur, k, fuel) ==
    IF fuel = 0 \/ ~InRange(es, cur) THEN cur
    ELSE ChainEnd(es, es[cur + 1].next[k], k, fuel - 1)

ChainOf(g, n, k) == Chain(g.edges, NodeAt(g, n).next[k], k, Len(g.edges) + 1)
ChainEndOf(g, n, k) == ChainEnd(g.edges, NodeAt(g, n).next[k], k, Len(g.edges) + 1)

Range(sq) == {sq[i] : i \in 1..Len(sq)}
NoDup(sq) == \A i, j \in 1..Len(sq) : i # j => sq[i] # sq[j]
ChainsConsistent(g) ==
    \A n \in NodeIxs(g), k \in {0, 1} :
        /\ NoDup(ChainOf(g, n, k))
        /\ Range(ChainOf(g, n, k)) = EdgesAt(g, n, k)
        /\ ChainEndOf(g, n, k) = EDGE_END

\* C1: in every state reached by add_node, add_edge, update_edge, remove_edge
\* and remove_node calls, for every node n the outgoing chain from n's head
\* visits exactly the edges with source n, each once, and ends at EDGE_END,
\* and the incoming chain visits exactly the edges with target n likewise.
C1_ChainsConsistent == ChainsConsistent(Cur)

\* C1 witness: after a removal has moved a later edge below an earlier one,
\* a node has two edges on its outgoing chain and one on its incoming chain.
C1_Witness ==
    /\ \E i, j \in EdgeIxs(Cur) :
        i < j /\ EdgeAt(Cur, i).stamp > EdgeAt(Cur, j).stamp
    /\ \E n \in NodeIxs(Cur) :
        Len(ChainOf(Cur, n, 0)) >= 2 /\ Len(ChainOf(Cur, n, 1)) >= 1

\* The index a node or edge has after the swap_remove of index a out of n
\* entries (the last entry moves to a), and the index it had before.
NewIx(i, a, n) == IF i = n - 1 THEN a ELSE i
OldIx(j, a, n) == IF j = a THEN n - 1 ELSE j

\* C2 as claimed: after remove_node(a) on a valid index a every find_edge
\* query that names a is absent, and node_count is one less.
C2_AsClaimed ==
    \A a \in NodeIxs(Cur) :
        LET r == remove_node(Cur, a) IN
        /\ node_count(r.g) = node_count(Cur) - 1
        /\ \A x \in 0..Len(nodes) :
            /\ find_edge(r.g, directed, a, x) = None
            /\ find_edge(r.g, directed, x, a) = None

\* C2 amended: after remove_node(a) on a valid index a node_count is one
\* less; when a was the last index every find_edge query naming a is absent;
\* otherwise index a names the node moved from the last index, and a
\* find_edge query on two indices of the new graph is present iff it was
\* present for the two nodes at their old indices.
C2_RemoveNodeFindEdge ==
    \A a \in NodeIxs(Cur) :
        LET r == remove_node(Cur, a)
            n == Len(nodes)
        IN
        /\ node_count(r.g) = n - 1
        /\ \A x \in 0..n :
            a = n - 1 =>
                /\ find_edge(r.g, directed, a, x) = None
                /\ find_edge(r.g, directed, x, a) = None
        /\ \A x, y \in NodeIxs(r.g) :
            IsSome(find_edge(r.g, directed, x, y))
                <=> IsSome(find_edge(Cur, directed, OldIx(x, a, n), OldIx(y, a, n)))

\* C2 witness: a valid index a that is not the last, the last node has an
\* edge that does not touch a, and after remove_node(a) a query naming a
\* finds it.
C2_Witness ==
    \E a \in NodeIxs(Cur) :
        /\ a # Len(nodes) - 1
        /\ \E e \in Incident(Cur, Len(nodes) - 1) : e \notin Incident(Cur, a)
        /\ \E x \in NodeIxs(Cur) :
            IsSome(find_edge(remove_node(Cur, a).g, directed, a, x))

\* An edge as the claims see it: source, target and weight.
Triple(g, e) == <<EdgeAt(g, e).node[0], EdgeAt(g, e).node[1], EdgeAt(g, e).data>>
\* The same with the endpoints at the indices they have once index a of n
\* nodes is removed.
MovedTriple(g, e, a, n) ==
    <<NewIx(EdgeAt(g, e).node[0], a, n), NewIx(EdgeAt(g, e).node[1], a, n),
      EdgeAt(g, e).data>>

\* The edges of chain k of node n in chain order, as triples.
ChainView(g, n, k) ==
    LET c == ChainOf(g, n, k) IN [i \in 1..Len(c) |-> Triple(g, c[i])]
\* Chain k of node i without the edges that touch a, as the triples they
\* become once index a of n nodes is removed.
ChainViewWithout(g, i, k, a, n) ==
    LET Keep(e) == e \notin Incident(g, a)
        c == SelectSeq(ChainOf(g, i, k), Keep)
    IN [j \in 1..Len(c) |-> MovedTriple(g, c[j], a, n)]

\* C3: remove_node(a) on a valid index a returns a's data and removes
\* exactly the edges incident to a (a self-loop counted once): edge_count
\* falls by their number, every other edge survives with its weight and its
\* two endpoint nodes, and the neighbours of every other node are its former
\* neighbours without a.
C3_RemoveNodeEdges ==
    \A a \in NodeIxs(Cur) :
        LET r == remove_node(Cur, a)
            n == Len(nodes)
            kept == EdgeIxs(Cur) \ Incident(Cur, a)
            Keep(x) == x # a
        IN
        /\ r.ret = Some(NodeAt(Cur, a).data)
        /\ edge_count(r.g) = edge_count(Cur) - Cardinality(Incident(Cur, a))
        /\ \A f \in EdgeIxs(r.g) :
            \E e \in kept : Triple(r.g, f) = MovedTriple(Cur, e, a, n)
        /\ \A e \in kept :
            Cardinality({f \in kept :
                            MovedTriple(Cur, f, a, n) = MovedTriple(Cur, e, a, n)})
              = Cardinality({f \in EdgeIxs(r.g) :
                            Triple(r.g, f) = MovedTriple(Cur, e, a, n)})
        /\ \A i \in NodeIxs(Cur) \ {a} :
            LET was == SelectSeq(neighbors(Cur, directed, i), Keep) IN
            neighbors(r.g, directed, NewIx(i, a, n))
                = [j \in 1..Len(was) |-> NewIx(was[j], a, n)]

\* C3 witness: node a has a self-loop and an edge shared with another node,
\* a third edge does not touch a, and remove_node(a) leaves that one edge.
C3_Witness ==
    \E a \in NodeIxs(Cur) :
        /\ \E e \in Incident(Cur, a) : EdgeAt(Cur, e).node = Arr2(a, a)
        /\ \E e \in Incident(Cur, a) : EdgeAt(Cur, e).node # Arr2(a, a)
        /\ EdgeIxs(Cur) \ Incident(Cur, a) # {}
        /\ edge_count(remove_node(Cur, a).g) = 1

\* C4: after remove_node(a), a valid and not the last index, the node that
\* was at the last index is at index a with its data, the edges that had
\* the last index as source or target have a in that position, and every
\* other node keeps its index, its data and its chains; when a is the last
\* index no node changes index.
C4_RemoveNodeSwap ==
    \A a \in NodeIxs(Cur) :
        LET r == remove_node(Cur, a)
            n == Len(nodes)
        IN
        /\ node_count(r.g) = n - 1
        /\ \A i \in NodeIxs(Cur) \ {a} :
            /\ (i # n - 1 => NewIx(i, a, n) = i)
            /\ NodeAt(r.g, NewIx(i, a, n)).data = NodeAt(Cur, i).data
            /\ \A k \in {0, 1} :
                ChainView(r.g, NewIx(i, a, n), k) = ChainViewWithout(Cur, i, k, a, n)
        /\ \A f \in EdgeIxs(r.g), k \in {0, 1} : EdgeAt(r.g, f).node[k] < n - 1

\* C4 witness: a is not the last index, the last node has an outgoing and
\* an incoming edge that do not touch a, a third node is there, and after
\* remove_node(a) index a carries the data and the edges of the last node.
C4_Witness ==
    \E a \in NodeIxs(Cur) :
        LET n == Len(nodes)
            r == remove_node(Cur, a)
        IN
        /\ n = 3
        /\ a # n - 1
        /\ EdgesAt(Cur, n - 1, 0) \ Incident(Cur, a) # {}
        /\ EdgesAt(Cur, n - 1, 1) \ Incident(Cur, a) # {}
        /\ NodeAt(Cur, a).data # NodeAt(Cur, n - 1).data
        /\ NodeAt(r.g, a).data = NodeAt(Cur, n - 1).data
        /\ EdgesAt(r.g, a, 0) # {}
        /\ EdgesAt(r.g, a, 1) # {}

\* C5: remove_edge(e) on a valid index e returns e's weight, edge_count
\* falls by one, node_count and all node data stay; the edge that was at the
\* last index (if it is not e) is at index e with its endpoints and weight,
\* every other surviving edge keeps index, endpoints and weight, and every
\* chain lists its surviving edges in the order it had.
C5_RemoveEdge ==
    \A e \in EdgeIxs(Cur) :
        LET r == remove_edge(Cur, e)
            m == Len(edges)
            Keep(x) == x # e
        IN
        /\ r.ret = Some(EdgeAt(Cur, e).data)
        /\ edge_count(r.g) = m - 1
        /\ node_count(r.g) = node_count(Cur)
        /\ \A n \in NodeIxs(Cur) : NodeAt(r.g, n).data = NodeAt(Cur, n).data
        /\ \A i \in EdgeIxs(Cur) \ {e} :
            /\ (i # m - 1 => NewIx(i, e, m) = i)
            /\ Triple(r.g, NewIx(i, e, m)) = Triple(Cur, i)
        /\ \A n \in NodeIxs(Cur), k \in {0, 1} :
            LET was == SelectSeq(ChainOf(Cur, n, k), Keep) IN
            ChainOf(r.g, n, k) = [j \in 1..Len(was) |-> NewIx(was[j], e, m)]

\* C5 witness: three edges leave one node, e is the middle one of its chain
\* and not the last index, and after remove_edge(e) the edge from the last
\* index is at index e on that chain.
C5_Witness ==
    \E e \in EdgeIxs(Cur), n \in NodeIxs(Cur) :
        /\ Len(edges) = 3
        /\ e # 2
        /\ Len(ChainOf(Cur, n, 0)) = 3
        /\ ChainOf(Cur, n, 0)[2] = e
        /\ e \in Range(ChainOf(remove_edge(Cur, e).g, n, 0))
        /\ Len(ChainOf(remove_edge(Cur, e).g, n, 0)) = 2

\* The edges stored with source a and target b, and the edges update_edge
\* and find_edge take to join a and b: in an undirected graph either way.
FromTo(g, a, b) == {e \in EdgeIxs(g) : EdgeAt(g, e).node = Arr2(a, b)}
Between(g, dir, a, b) ==
    IF dir THEN FromTo(g, a, b) ELSE FromTo(g, a, b) \cup FromTo(g, b, a)
\* The most recently added edge of a set that is not empty.
MostRecent(g, S) ==
    CHOOSE e \in S : \A f \in S : EdgeAt(g, f).stamp <= EdgeAt(g, e).stamp
\* Every edge but e is as it was.
OthersUnchanged(g, h, e) ==
    /\ Len(h.edges) = Len(g.edges)
    /\ \A f \in EdgeIxs(g) \ {e} : EdgeAt(h, f) = EdgeAt(g, f)

\* C6: update_edge(a, b, w) with valid a and b: if an edge a -> b exists (in
\* an undirected graph an edge between a and b either way) edge_count is
\* unchanged, the returned index is that of an existing edge between a and b
\* and its weight afterwards is w; otherwise it does what add_edge(a, b, w)
\* does.  So in a directed graph update_edge(b, a, _) adds an edge although
\* a -> b exists, and in an undirected graph it returns the index of the one
\* edge between a and b and adds none.
C6_UpdateEdge ==
    \A a \in NodeIxs(Cur), b \in NodeIxs(Cur), w \in WeightSet :
        LET r == update_edge(Cur, directed, a, b, w)
            back == update_edge(Cur, directed, b, a, w)
            ex == Between(Cur, directed, a, b)
        IN
        /\ ~r.panic
        /\ ex # {} =>
            /\ edge_count(r.g) = edge_count(Cur)
            /\ r.ret \in ex
            /\ edge_weight(r.g, r.ret) = Some(w)
            /\ EdgeAt(r.g, r.ret) = [EdgeAt(Cur, r.ret) EXCEPT !.data = w]
            /\ OthersUnchanged(Cur, r.g, r.ret)
            /\ r.g.nodes = nodes
        /\ ex = {} =>
            /\ r = add_edge(Cur, a, b, w)
            /\ edge_count(r.g) = edge_count(Cur) + 1
            /\ r.ret = edge_count(Cur)
            /\ Triple(r.g, r.ret) = <<a, b, w>>
        /\ (directed /\ FromTo(Cur, a, b) # {} /\ FromTo(Cur, b, a) = {}) =>
            /\ edge_count(back.g) = edge_count(Cur) + 1
            /\ back.ret # r.ret
        /\ (~directed /\ Cardinality(ex) = 1) =>
            /\ edge_count(back.g) = edge_count(Cur)
            /\ back.ret = r.ret

\* C6 witness: an undirected graph whose only edge is stored a -> b, a # b,
\* and update_edge(b, a, w) returns its index and gives it a new weight.
C6_Witness ==
    /\ ~directed
    /\ Len(edges) = 1
    /\ \E a \in NodeIxs(Cur), b \in NodeIxs(Cur), w \in WeightSet :
        /\ a # b
        /\ FromTo(Cur, a, b) = {0}
        /\ EdgeAt(Cur, 0).data # w
        /\ update_edge(Cur, directed, b, a, w).ret = 0
        /\ EdgeAt(update_edge(Cur, directed, b, a, w).g, 0).data = w

\* C7 as claimed: with several parallel edges between a and b, update_edge
\* overwrites and returns the most recently added of them and leaves the
\* others unchanged, in directed graphs (edges a -> b) and in undirected
\* graphs (edges between a and b either way).
C7_AsClaimed ==
    \A a \in NodeIxs(Cur), b \in NodeIxs(Cur), w \in WeightSet :
        LET r == update_edge(Cur, directed, a, b, w)
            par == Between(Cur, directed, a, b)
        IN Cardinality(par) >= 2 =>
            /\ r.ret = MostRecent(Cur, par)
            /\ edge_weight(r.g, r.ret) = Some(w)
            /\ OthersUnchanged(Cur, r.g, r.ret)

\* The edge the traversal from a meets first: the most recent edge stored
\* a -> b and, in an undirected graph with no edge stored a -> b, the most
\* recent edge stored b -> a.
FirstFound(g, dir, a, b) ==
    IF dir \/ FromTo(g, a, b) # {}
    THEN MostRecent(g, FromTo(g, a, b))
    ELSE MostRecent(g, FromTo(g, b, a))

\* C7 amended: with several parallel edges between a and b, update_edge
\* overwrites and returns the most recently added edge stored with source a
\* and target b; in an undirected graph with no edge stored a -> b it is the
\* most recently added edge stored b -> a.  The other edges are unchanged.
C7_UpdateEdgeParallel ==
    \A a \in NodeIxs(Cur), b \in NodeIxs(Cur), w \in WeightSet :
        LET r == update_edge(Cur, directed, a, b, w)
            par == Between(Cur, directed, a, b)
        IN Cardinality(par) >= 2 =>
            /\ r.ret = FirstFound(Cur, directed, a, b)
            /\ edge_weight(r.g, r.ret) = Some(w)
            /\ OthersUnchanged(Cur, r.g, r.ret)

\* C7 witness: an undirected graph, after a removal has moved a later edge
\* below an earlier one, with two edges stored a -> b and a more recent one
\* stored b -> a; update_edge(a, b, w) returns the later of the two a -> b.
C7_Witness ==
    /\ ~directed
    /\ \E i, j \in EdgeIxs(Cur) :
        i < j /\ EdgeAt(Cur, i).stamp > EdgeAt(Cur, j).stamp
    /\ \E a \in NodeIxs(Cur), b \in NodeIxs(Cur), w \in WeightSet :
        /\ a # b
        /\ Cardinality(FromTo(Cur, a, b)) = 2
        /\ Cardinality(FromTo(Cur, b, a)) = 1
        /\ MostRecent(Cur, Between(Cur, directed, a, b)) \in FromTo(Cur, b, a)
        /\ update_edge(Cur, directed, a, b, w).ret = MostRecent(Cur, FromTo(Cur, a, b))

\* C8: add_node(D) returns the node count before the call, node(that index)
\* is D, the new node has both chain heads at EDGE_END, and no existing node
\* or edge changes.
C8_AddNode ==
    \A D \in NodeDataSet :
        LET r == add_node(Cur, D)
            n == Len(nodes)
        IN
        /\ r.ret = n
        /\ node_count(r.g) = n + 1
        /\ node(r.g, r.ret) = Some(D)
        /\ \A k \in {0, 1} : r.g.nodes[n + 1].next[k] = EDGE_END
        /\ \A i \in NodeIxs(Cur) : NodeAt(r.g, i) = NodeAt(Cur, i)
        /\ r.g.edges = edges

\* C8 witness: a graph with edges whose last node, the second or third to
\* be added by add_node alone, carries another datum than the first and has
\* no edge yet.
C8_Witness ==
    /\ adds.only
    /\ adds.add_node >= 2
    /\ Len(edges) >= 1
    /\ nodes[Len(nodes)].data # nodes[1].data
    /\ nodes[Len(nodes)].next = Arr2(EDGE_END, EDGE_END)
    /\ node(Cur, Len(nodes) - 1) = Some(nodes[Len(nodes)].data)

\* C9: add_edge(a, b, w) with valid a and b always creates a new edge, also
\* when an edge a -> b exists or a = b: it returns the edge count before the
\* call and every existing edge keeps index, endpoints and weight; so after
\* N add_node and M add_edge calls and no other call node_count = N and
\* edge_count = M.
C9_AddEdge ==
    /\ \A a \in NodeIxs(Cur), b \in NodeIxs(Cur), w \in WeightSet :
        LET r == add_edge(Cur, a, b, w)
            m == Len(edges)
        IN
        /\ ~r.panic
        /\ r.ret = m
        /\ edge_count(r.g) = m + 1
        /\ node_count(r.g) = node_count(Cur)
        /\ Triple(r.g, m) = <<a, b, w>>
        /\ \A e \in EdgeIxs(Cur) : Triple(r.g, e) = Triple(Cur, e)
    /\ adds.only =>
        /\ node_count(Cur) = adds.add_node
        /\ edge_count(Cur) = adds.add_edge

\* C9 witness: two add_node and three add_edge calls and no other: two
\* parallel edges and a self-loop.
C9_Witness ==
    /\ adds = [only |-> TRUE, add_node |-> 2, add_edge |-> 3]
    /\ \E a \in NodeIxs(Cur), b \in NodeIxs(Cur) :
        /\ a # b
        /\ Cardinality(FromTo(Cur, a, b)) = 2
        /\ Cardinality(FromTo(Cur, a, a)) = 1

\* Node indices that are out of range: the first ones and the largest.
BadNodeIxs == {Len(nodes), Len(nodes) + 1, EDGE_END}

\* C10: add_edge(a, b, w) where a or b (or both, a = b included) is not
\* less than node_count panics, and at that point no edge has been appended
\* and no chain head has changed.
C10_AddEdgePanics ==
    \A a \in NodeIxs(Cur) \cup BadNodeIxs, b \in NodeIxs(Cur) \cup BadNodeIxs,
       w \in WeightSet :
        (a \in BadNodeIxs \/ b \in BadNodeIxs) =>
            LET r == add_edge(Cur, a, b, w) IN
            /\ r.panic
            /\ r.g.edges = edges
            /\ r.g.nodes = nodes

\* C10 witness: a call has panicked on a graph with nodes and edges, where
\* add_edge with one valid and one invalid index panics.
C10_Witness ==
    /\ status = "panic"
    /\ Len(nodes) >= 2
    /\ Len(edges) >= 2
    /\ add_edge(Cur, 0, Len(nodes), 1).panic
    /\ add_edge(Cur, Len(nodes), 0, 1).panic


\* Edge indices that are out of range: the first ones and the sentinel.
BadEdgeIxs == {Len(edges), Len(edges) + 1, EDGE_END}

\* C11: remove_node(a) with a >= node_count and remove_edge(e) with
\* e >= edge_count (EDGE_END included) return None and leave the node
\* vector, the edge vector and every link unchanged.
C11_RemoveAbsent ==
    /\ \A a \in BadNodeIxs :
        LET r == remove_node(Cur, a) IN
        r.ret = None /\ r.g = Cur
    /\ \A e \in BadEdgeIxs :
        LET r == remove_edge(Cur, e) IN
        r.ret = None /\ r.g = Cur

\* C11 witness: a graph with two nodes and two edges, reached through a call
\* other than add_node and add_edge, on which remove_node(node_count) and
\* remove_edge(EDGE_END) return None.
C11_Witness ==
    /\ ~adds.only
    /\ status = "ok"
    /\ Len(nodes) >= 2
    /\ Len(edges) >= 2
    /\ remove_node(Cur, Len(nodes)).ret = None
    /\ remove_edge(Cur, EDGE_END).ret = None
    /\ remove_edge(Cur, Len(edges) - 1).ret # None

\* C12: an index is valid iff it is less than the length: node(a) is present
\* iff a < node_count, edge_weight(e) iff e < edge_count; find_edge and
\* find_any_edge with a node index out of range are absent, neighbors and
\* edges of a node that does not exist are empty.
C12_IndexValidity ==
    /\ \A a \in NodeIxs(Cur) \cup BadNodeIxs :
        IsSome(node(Cur, a)) <=> a < node_count(Cur)
    /\ \A e \in EdgeIxs(Cur) \cup BadEdgeIxs :
        IsSome(edge_weight(Cur, e)) <=> e < edge_count(Cur)
    /\ \A a \in BadNodeIxs, x \in NodeIxs(Cur) \cup BadNodeIxs :
        /\ find_edge(Cur, directed, a, x) = None
        /\ find_edge(Cur, directed, x, a) = None
        /\ find_any_edge(Cur, a, x) = None
        /\ find_any_edge(Cur, x, a) = None
    /\ \A a \in BadNodeIxs :
        /\ neighbors(Cur, directed, a) = <<>>
        /\ neighbors_both(Cur, a) = <<>>
        /\ \A d \in {Outgoing, Incoming} : neighbors_directed(Cur, directed, a, d) = <<>>
        /\ edges_of(Cur, directed, a) = <<>>
        /\ edges_both(Cur, a) = <<>>

\* C12 witness: after a removal, a graph with nodes and edges where the last
\* index is present and the length itself is absent, for nodes and edges.
C12_Witness ==
    /\ \E i, j \in EdgeIxs(Cur) :
        i < j /\ EdgeAt(Cur, i).stamp > EdgeAt(Cur, j).stamp
    /\ Len(nodes) >= 2
    /\ IsSome(node(Cur, Len(nodes) - 1))
    /\ node(Cur, Len(nodes)) = None
    /\ IsSome(edge_weight(Cur, Len(edges) - 1))
    /\ edge_weight(Cur, Len(edges)) = None
    /\ neighbors_both(Cur, Len(nodes) - 1) # <<>>


\* C13: in a directed graph find_edge(a, b) is present iff an edge with
\* source a and target b exists, and the edge it returns has source a and
\* target b; an edge b->a alone leaves find_edge(a, b) absent while
\* find_any_edge(a, b) is present.
C13_FindEdgeDirected ==
    directed =>
        \A a, b \in NodeIxs(Cur) :
            LET r == find_edge(Cur, directed, a, b) IN
            /\ IsSome(r) <=> FromTo(Cur, a, b) # {}
            /\ IsSome(r) => Unwrap(r) \in FromTo(Cur, a, b)
            /\ (FromTo(Cur, a, b) = {} /\ FromTo(Cur, b, a) # {}) =>
                    /\ r = None
                    /\ IsSome(find_any_edge(Cur, a, b))

\* C13 witness: a directed graph with an edge b->a and none a->b, where
\* find_edge(b, a) is present, find_edge(a, b) absent, find_any_edge(a, b)
\* present.
C13_Witness ==
    /\ directed
    /\ \E a, b \in NodeIxs(Cur) :
        /\ a # b
        /\ FromTo(Cur, a, b) = {}
        /\ Cardinality(FromTo(Cur, b, a)) >= 2
        /\ IsSome(find_edge(Cur, directed, b, a))
        /\ find_edge(Cur, directed, a, b) = None
        /\ IsSome(find_any_edge(Cur, a, b))

\* C14: in an undirected graph find_edge(a, b) is present iff find_edge(b, a)
\* is present iff an edge is stored between a and b in either orientation;
\* for every stored edge both orders of its endpoints are found.
C14_FindEdgeUndirected ==
    ~directed =>
        /\ \A a, b \in NodeIxs(Cur) :
            /\ IsSome(find_edge(Cur, directed, a, b))
                    <=> IsSome(find_edge(Cur, directed, b, a))
            /\ IsSome(find_edge(Cur, directed, a, b))
                    <=> (FromTo(Cur, a, b) \cup FromTo(Cur, b, a)) # {}
        /\ \A e \in EdgeIxs(Cur) :
            /\ IsSome(find_edge(Cur, directed, EdgeAt(Cur, e).node[0],
                                               EdgeAt(Cur, e).node[1]))
            /\ IsSome(find_edge(Cur, directed, EdgeAt(Cur, e).node[1],
                                               EdgeAt(Cur, e).node[0]))

\* C14 witness: an undirected graph where the only edges between a and b are
\* stored as (a, b), and find_edge(b, a) finds one; a third node has no edge
\* to a.
C14_Witness ==
    /\ ~directed
    /\ \E a, b, c \in NodeIxs(Cur) :
        /\ a # b /\ c # a /\ c # b
        /\ FromTo(Cur, a, b) # {}
        /\ FromTo(Cur, b, a) = {}
        /\ IsSome(find_edge(Cur, directed, b, a))
        /\ Unwrap(find_edge(Cur, directed, b, a)) \in FromTo(Cur, a, b)
        /\ find_edge(Cur, directed, c, a) = None
        /\ find_edge(Cur, directed, a, c) = None

\* C15: find_any_edge(a, b) is present iff an edge a->b or b->a exists;
\* (e, Outgoing) means e has source a and target b, (e, Incoming) means e has
\* source b and target a; Incoming is reported only when no edge a->b exists,
\* and a self-loop query reports Outgoing.
C15_FindAnyEdge ==
    \A a, b \in NodeIxs(Cur) :
        LET r == find_any_edge(Cur, a, b) IN
        /\ IsSome(r) <=> (FromTo(Cur, a, b) \cup FromTo(Cur, b, a)) # {}
        /\ IsSome(r) =>
            /\ Unwrap(r)[2] \in {Outgoing, Incoming}
            /\ Unwrap(r)[2] = Outgoing => Unwrap(r)[1] \in FromTo(Cur, a, b)
            /\ Unwrap(r)[2] = Incoming =>
                    /\ Unwrap(r)[1] \in FromTo(Cur, b, a)
                    /\ FromTo(Cur, a, b) = {}
            /\ a = b => Unwrap(r)[2] = Outgoing

\* C15 witness: edges a->b and b->a both exist, the b->a one older, and a
\* self-loop; find_any_edge(a, b) and (b, a) both report Outgoing, as does
\* the self-loop query.
C15_Witness ==
    \E a, b, c \in NodeIxs(Cur) :
        /\ a # b
        /\ \E e \in FromTo(Cur, a, b), f \in FromTo(Cur, b, a) :
                EdgeAt(Cur, f).stamp < EdgeAt(Cur, e).stamp
        /\ FromTo(Cur, c, c) # {}
        /\ Unwrap(find_any_edge(Cur, a, b))[2] = Outgoing
        /\ Unwrap(find_any_edge(Cur, b, a))[2] = Outgoing
        /\ Unwrap(find_any_edge(Cur, c, c))[2] = Outgoing


\* The edges of S, most recently added first: the order of a chain, since
\* add_edge links at the head and removals keep the order of the rest.
RECURSIVE ByRecency(_, _)
ByRecency(g, S) ==
    IF S = {} THEN <<>>
    ELSE LET e == MostRecent(g, S) IN <<e>> \o ByRecency(g, S \ {e})

\* The targets of the edges leaving a, and the sources of the edges entering
\* a, one item per edge, in chain order.
OutTargets(g, a) ==
    LET c == ByRecency(g, EdgesAt(g, a, 0)) IN
    [j \in 1..Len(c) |-> EdgeAt(g, c[j]).node[1]]

InSources(g, a) ==
    LET c == ByRecency(g, EdgesAt(g, a, 1)) IN
    [j \in 1..Len(c) |-> EdgeAt(g, c[j]).node[0]]

Occurrences(sq, x) == Cardinality({j \in 1..Len(sq) : sq[j] = x})

\* The undirected graph of the example: nodes a, b, c and the edges a-b,
\* b-c, b-a added in that order.
ExampleABC ==
    LET g0 == Graph(<<>>, <<>>, FALSE)
        g1 == add_node(add_node(add_node(g0, 1).g, 1).g, 1).g
        g2 == add_edge(g1, 0, 1, 1).g
        g3 == add_edge(g2, 1, 2, 1).g
    IN add_edge(g3, 1, 0, 1).g

\* C16: in an undirected graph neighbors(a) yields the targets of a's
\* outgoing chain then the sources of a's incoming chain, one item per chain
\* entry: its length is out-degree + in-degree, a self-loop on a yields a
\* twice; with edges a-b, b-c, b-a added in this order neighbors(b) is
\* [a, c, a].
C16_NeighborsUndirected ==
    /\ ~directed =>
        \A a \in NodeIxs(Cur) :
            LET ns == neighbors(Cur, directed, a) IN
            /\ ns = OutTargets(Cur, a) \o InSources(Cur, a)
            /\ Len(ns) = Cardinality(EdgesAt(Cur, a, 0))
                            + Cardinality(EdgesAt(Cur, a, 1))
            /\ Occurrences(ns, a) = 2 * Cardinality(FromTo(Cur, a, a))
    /\ neighbors(ExampleABC, FALSE, 1) = <<0, 2, 0>>

\* C16 witness: an undirected graph, after a removal, with a node that has a
\* self-loop, an edge leaving it and an edge entering it; it is its own
\* neighbour twice and has four neighbours for three edges.
C16_Witness ==
    /\ ~directed
    /\ ~adds.only
    /\ \E a, b \in NodeIxs(Cur) :
        /\ a # b
        /\ FromTo(Cur, a, a) # {}
        /\ FromTo(Cur, a, b) # {}
        /\ FromTo(Cur, b, a) # {}
        /\ Len(neighbors(Cur, directed, a)) = 4
        /\ Occurrences(neighbors(Cur, directed, a), a) = 2

\* C17 as stated: for any graph, directed or not, neighbors_directed(a, dir)
\* follows one chain only.
C17_AsClaimed ==
    \A a \in NodeIxs(Cur) :
        /\ directed => neighbors(Cur, directed, a) = OutTargets(Cur, a)
        /\ neighbors_directed(Cur, directed, a, Outgoing) = OutTargets(Cur, a)
        /\ neighbors_directed(Cur, directed, a, Incoming) = InSources(Cur, a)

\* C17: in a directed graph neighbors(a) yields exactly the targets of the
\* edges leaving a, and neighbors_directed(a, dir) follows one chain: the
\* targets of the edges leaving a for Outgoing, the sources of the edges
\* entering a for Incoming. In an undirected graph neighbors_directed(a, dir)
\* yields both chains whatever dir is.
C17_NeighborsDirected ==
    \A a \in NodeIxs(Cur) :
        /\ directed =>
            /\ neighbors(Cur, directed, a) = OutTargets(Cur, a)
            /\ neighbors_directed(Cur, directed, a, Outgoing) = OutTargets(Cur, a)
            /\ neighbors_directed(Cur, directed, a, Incoming) = InSources(Cur, a)
        /\ ~directed =>
            \A d \in {Outgoing, Incoming} :
                neighbors_directed(Cur, directed, a, d)
                    = OutTargets(Cur, a) \o InSources(Cur, a)

\* C17 witness: a directed graph, after a removal, with a node that has two
\* edges leaving it and one entering it from another node; the two
\* directions give different sequences.
C17_Witness ==
    /\ directed
    /\ ~adds.only
    /\ \E a, b \in NodeIxs(Cur) :
        /\ a # b
        /\ Cardinality(EdgesAt(Cur, a, 0)) = 2
        /\ Len(neighbors(Cur, directed, a)) = 2
        /\ neighbors_directed(Cur, directed, a, Outgoing) = neighbors(Cur, directed, a)
        /\ neighbors_directed(Cur, directed, a, Incoming) = <<b>>


\* The nodes of S in ascending index order.
Ascending(g, S) ==
    LET In(n) == n \in S
    IN SelectSeq([i \in 1..Len(g.nodes) |-> i - 1], In)

\* The undirected graph of the example: nodes a, b, c, d and the edges a-b,
\* a-c.
ExampleABCD ==
    LET g0 == Graph(<<>>, <<>>, FALSE)
        g1 == add_node(add_node(add_node(add_node(g0, 1).g, 1).g, 1).g, 1).g
    IN add_edge(add_edge(g1, 0, 1, 1).g, 0, 2, 1).g

\* C18: without_edges(dir) yields in ascending index order exactly the nodes
\* with no edge in direction dir: in a directed graph the nodes no edge
\* enters (Incoming) or no edge leaves (Outgoing); in an undirected graph
\* the nodes with no incident edge at all, so that for undirected edges a-b,
\* a-c over nodes a, b, c, d without_edges(Outgoing) is [d].
C18_AsClaimed ==
    /\ \A k \in {Outgoing, Incoming} :
        without_edges(Cur, k) =
            Ascending(Cur, {n \in NodeIxs(Cur) :
                                IF directed THEN EdgesAt(Cur, n, k) = {}
                                            ELSE Incident(Cur, n) = {}})

\* C18, what the iterator does: whatever the edge type, without_edges(dir)
\* yields in ascending order the nodes whose chain dir is empty; on the
\* undirected example it yields [b, c, d] where [d] is expected.
C18_WithoutEdgesChains ==
    /\ \A k \in {Outgoing, Incoming} :
        without_edges(Cur, k) =
            Ascending(Cur, {n \in NodeIxs(Cur) : EdgesAt(Cur, n, k) = {}})
    /\ without_edges(ExampleABCD, Outgoing) = <<1, 2, 3>>
    /\ without_edges(ExampleABCD, Outgoing) # <<3>>

\* C18 witness: an undirected graph in which without_edges(Outgoing) yields a
\* node that has an incident edge.
C18_Witness ==
    /\ ~directed
    /\ \E j \in 1..Len(without_edges(Cur, Outgoing)) :
        Incident(Cur, without_edges(Cur, Outgoing)[j]) # {}
    /\ \E n \in NodeIxs(Cur) : Incident(Cur, n) = {}


\* The nodes reached from the set S along edges source -> target, found
\* independently of the links: by the node pairs of the edges.
Succ(g, S) == {EdgeAt(g, e).node[1] : e \in {f \in EdgeIxs(g) : EdgeAt(g, f).node[0] \in S}}

RECURSIVE ReachFrom(_, _)
ReachFrom(g, S) ==
    IF Succ(g, S) \subseteq S THEN S ELSE ReachFrom(g, S \cup Succ(g, S))

\* n lies on a directed cycle (a self-loop is one).
OnCycle(g, n) == n \in ReachFrom(g, Succ(g, {n}))
Acyclic(g) == \A n \in NodeIxs(g) : ~OnCycle(g, n)

\* The position of node n in the sequence sq (0 if absent).
Pos(sq, n) ==
    IF \E j \in 1..Len(sq) : sq[j] = n
    THEN CHOOSE j \in 1..Len(sq) : sq[j] = n ELSE 0

\* C19: for every acyclic directed graph, parallel edges allowed, toposort
\* returns each node exactly once, and for every edge (u, v) u comes
\* strictly before v.
C19_ToposortAcyclic ==
    (directed /\ Acyclic(Cur)) =>
        LET t == toposort(Cur) IN
        /\ Len(t) = node_count(Cur)
        /\ Range(t) = NodeIxs(Cur)
        /\ NoDup(t)
        /\ \A e \in EdgeIxs(Cur) :
            Pos(t, EdgeAt(Cur, e).node[0]) < Pos(t, EdgeAt(Cur, e).node[1])

\* C19 witness: an acyclic directed graph with three nodes where two nodes
\* have an edge to the same third one of lower index, so the order is not
\* the index order.
C19_Witness ==
    /\ directed
    /\ Acyclic(Cur)
    /\ Len(nodes) = 3
    /\ \E u, v, w \in NodeIxs(Cur) :
        /\ u # v /\ w < u /\ w < v
        /\ FromTo(Cur, u, w) # {}
        /\ FromTo(Cur, v, w) # {}
    /\ Len(toposort(Cur)) = 3
    /\ toposort(Cur) # <<0, 1, 2>>

\* C20: for every directed graph with a directed cycle, a self-loop
\* included, toposort returns fewer entries than node_count, none of them a
\* node on a cycle and none twice; the output has node_count entries only if
\* the graph is acyclic.
C20_ToposortCyclic ==
    directed =>
        LET t == toposort(Cur) IN
        /\ ~Acyclic(Cur) =>
            /\ Len(t) < node_count(Cur)
            /\ \A n \in NodeIxs(Cur) : OnCycle(Cur, n) => n \notin Range(t)
            /\ NoDup(t)
            /\ Range(t) \subseteq NodeIxs(Cur)
        /\ Len(t) = node_count(Cur) => Acyclic(Cur)

\* C20 witness: a directed graph with a cycle through two nodes and a third
\* node outside it; toposort returns that node alone.
C20_Witness ==
    /\ directed
    /\ \E a, b, c \in NodeIxs(Cur) :
        /\ a # b /\ c # a /\ c # b
        /\ FromTo(Cur, a, b) # {}
        /\ FromTo(Cur, b, a) # {}
        /\ OnCycle(Cur, a)
        /\ toposort(Cur) = <<c>>


\* C27: in a UnionFind over n elements find(i) = i initially; union(a, b)
\* returns true iff find(a) # find(b) just before, so union(i, i) is false;
\* after union(a, b) find(a) = find(b); elements of other sets stay separate
\* from the merged set; the number of distinct representatives is n minus
\* the number of unions that returned true.
C27_UnionFind ==
    /\ merges = 0 => \A i \in Elems : find(uf, i) = i
    /\ \A a \in Elems, b \in Elems :
        LET r == union(uf, a, b) IN
        /\ r.ret <=> find(uf, a) # find(uf, b)
        /\ a = b => ~r.ret
        /\ find(r.u, a) = find(r.u, b)
        /\ \A x \in Elems, y \in Elems :
            find(r.u, x) = find(r.u, y) <=>
                \/ find(uf, x) = find(uf, y)
                \/ {find(uf, x), find(uf, y)} = {find(uf, a), find(uf, b)}
    /\ Cardinality({find(uf, i) : i \in Elems}) = Len(uf.parent) - merges

\* C27 witness: four elements after two unions that returned true, with a
\* set of three elements and one element apart; a union inside the set
\* returns false and a union with the element apart returns true.
C27_Witness ==
    /\ Len(uf.parent) = 4
    /\ merges = 2
    /\ \E a, b, c, d \in Elems :
        /\ Cardinality({a, b, c, d}) = 4
        /\ find(uf, a) = find(uf, b)
        /\ find(uf, b) = find(uf, c)
        /\ find(uf, d) # find(uf, a)
        /\ ~union(uf, a, c).ret
        /\ union(uf, c, d).ret
        /\ find(uf, a) # a


\* The nodes joined to a node of S by an edge, read in either direction, and
\* the connected component of a node in that reading, both from the node
\* pairs of the edges.
Touching(g, S) ==
    S \cup {EdgeAt(g, e).node[1] : e \in {f \in EdgeIxs(g) : EdgeAt(g, f).node[0] \in S}}
      \cup {EdgeAt(g, e).node[0] : e \in {f \in EdgeIxs(g) : EdgeAt(g, f).node[1] \in S}}

RECURSIVE UReach(_, _)
UReach(g, S) == IF Touching(g, S) = S THEN S ELSE UReach(g, Touching(g, S))

Component(g, n) == UReach(g, {n})
Components(g) == {Component(g, n) : n \in NodeIxs(g)}

\* A graph read as undirected is a forest iff it has as many edges as nodes
\* less components; with more edges it has a cycle.
HasUndirectedCycle(g) ==
    Len(g.edges) > Len(g.nodes) - Cardinality(Components(g))

\* C21: is_cyclic(g) is true iff g read as undirected has a cycle, a
\* self-loop and a second edge between joined nodes included, for directed
\* and undirected g; adding an edge that closes a cycle makes it true and
\* removing that edge makes it false again.
C21_IsCyclic ==
    /\ is_cyclic(Cur) <=> HasUndirectedCycle(Cur)
    /\ (\E e \in EdgeIxs(Cur) : EdgeAt(Cur, e).node[0] = EdgeAt(Cur, e).node[1])
            => is_cyclic(Cur)
    /\ (\E a, b \in NodeIxs(Cur) :
            Cardinality(FromTo(Cur, a, b) \cup FromTo(Cur, b, a)) >= 2)
            => is_cyclic(Cur)
    /\ ~is_cyclic(Cur) =>
        \A a, b \in NodeIxs(Cur) :
            LET added == add_edge(Cur, a, b, 1).g
                removed == remove_edge(added, Len(edges)).g
            IN /\ is_cyclic(added) <=> b \in Component(Cur, a)
               /\ ~is_cyclic(removed)

\* C21 witness: a directed graph, after a removal, whose only cycle is made
\* of an edge a->b and an edge b->a; is_cyclic is true, and false once the
\* last edge is removed.
C21_Witness ==
    /\ directed
    /\ ~adds.only
    /\ Len(edges) = 2
    /\ \E a, b \in NodeIxs(Cur) :
        /\ a # b
        /\ FromTo(Cur, a, b) # {}
        /\ FromTo(Cur, b, a) # {}
    /\ Acyclic(Cur) = FALSE
    /\ is_cyclic(Cur)
    /\ ~is_cyclic(remove_edge(Cur, 1).g)


\* C22: for every input graph with k connected components (read as
\* undirected; an isolated node is a component, the empty graph has none)
\* min_spanning_tree returns a graph with the same node count, the same node
\* data at the same indices, and node_count - k edges.
C22_MstCounts ==
    \A p \in PopOrders(Cur) :
        LET mst == min_spanning_tree(Cur, p) IN
        /\ node_count(mst) = node_count(Cur)
        /\ \A n \in NodeIxs(Cur) : node(mst, n) = node(Cur, n)
        /\ edge_count(mst) = node_count(Cur) - Cardinality(Components(Cur))

\* C22 witness: a graph, after a removal, with an isolated node and a
\* component of two nodes joined by two edges; the result has three nodes
\* and one edge.
C22_Witness ==
    /\ ~adds.only
    /\ Len(nodes) = 3
    /\ Len(edges) = 2
    /\ Cardinality(Components(Cur)) = 2
    /\ nodes[1].data # nodes[3].data
    /\ \E p \in PopOrders(Cur) : edge_count(min_spanning_tree(Cur, p)) = 1

\* The components when only the edges of E count, and the sum of their
\* weights.
TouchingIn(g, E, S) ==
    S \cup {EdgeAt(g, e).node[1] : e \in {f \in E : EdgeAt(g, f).node[0] \in S}}
      \cup {EdgeAt(g, e).node[0] : e \in {f \in E : EdgeAt(g, f).node[1] \in S}}

RECURSIVE UReachIn(_, _, _)
UReachIn(g, E, S) ==
    IF TouchingIn(g, E, S) = S THEN S ELSE UReachIn(g, E, TouchingIn(g, E, S))

ComponentsIn(g, E) == {UReachIn(g, E, {n}) : n \in NodeIxs(g)}

RECURSIVE WeightSum(_, _)
WeightSum(g, E) ==
    IF E = {} THEN 0
    ELSE LET e == CHOOSE f \in E : TRUE IN
         EdgeAt(g, e).data + WeightSum(g, E \ {e})

\* The spanning forests of g: the sets of edges without a cycle that join
\* what g joins.
SpanningForests(g) ==
    {E \in SUBSET EdgeIxs(g) :
        /\ ComponentsIn(g, E) = Components(g)
        /\ Cardinality(E) = Len(g.nodes) - Cardinality(Components(g))}

\* C23: the result of min_spanning_tree is a minimum-weight spanning forest:
\* every edge of it is an edge of the input with the same endpoints and
\* weight, it has no cycle read as undirected, it joins two nodes iff the
\* input does, its weight is the least over the spanning forests of the
\* input, and no self-loop is in it.
C23_MstMinimal ==
    \A p \in PopOrders(Cur) :
        LET mst == min_spanning_tree(Cur, p) IN
        /\ \A e \in EdgeIxs(mst) :
            \E f \in EdgeIxs(Cur) :
                /\ EdgeAt(Cur, f).node = EdgeAt(mst, e).node
                /\ EdgeAt(Cur, f).data = EdgeAt(mst, e).data
        /\ ~HasUndirectedCycle(mst)
        /\ \A a \in NodeIxs(Cur) : Component(mst, a) = Component(Cur, a)
        /\ \A E \in SpanningForests(Cur) :
            WeightSum(mst, EdgeIxs(mst)) <= WeightSum(Cur, E)
        /\ \A e \in EdgeIxs(mst) :
            EdgeAt(mst, e).node[0] # EdgeAt(mst, e).node[1]

\* C23 witness: a graph with a self-loop, a heavy edge stored before a light
\* one between the same two nodes; the result is the light edge alone.
C23_Witness ==
    /\ Len(edges) = 3
    /\ \E e, f, l \in EdgeIxs(Cur) :
        /\ e < f
        /\ EdgeAt(Cur, e).data > EdgeAt(Cur, f).data
        /\ EdgeAt(Cur, e).node[0] # EdgeAt(Cur, e).node[1]
        /\ {EdgeAt(Cur, e).node[0], EdgeAt(Cur, e).node[1]}
                = {EdgeAt(Cur, f).node[0], EdgeAt(Cur, f).node[1]}
        /\ EdgeAt(Cur, l).node[0] = EdgeAt(Cur, l).node[1]
        /\ \A p \in PopOrders(Cur) :
            LET mst == min_spanning_tree(Cur, p) IN
            /\ edge_count(mst) = 1
            /\ EdgeAt(mst, 0).data = EdgeAt(Cur, f).data


\* C24 as stated: on the result of min_spanning_tree, find_edge is present
\* for every selected edge whichever order its endpoints are given in, also
\* for a directed input, and absent for the pairs no selected edge joins.
C24_AsClaimed ==
    \A p \in PopOrders(Cur) :
        LET mst == min_spanning_tree(Cur, p) IN
        /\ \A e \in EdgeIxs(mst) :
            /\ IsSome(find_edge(mst, directed, EdgeAt(mst, e).node[0],
                                               EdgeAt(mst, e).node[1]))
            /\ IsSome(find_edge(mst, directed, EdgeAt(mst, e).node[1],
                                               EdgeAt(mst, e).node[0]))
        /\ \A a, b \in NodeIxs(mst) :
            (FromTo(mst, a, b) \cup FromTo(mst, b, a)) = {}
                => find_edge(mst, directed, a, b) = None

\* C24 witness: a directed graph whose spanning tree holds an edge a->b;
\* on the tree find_edge(a, b) is present and find_edge(b, a) is absent.
C24_Witness ==
    /\ directed
    /\ Len(edges) >= 2
    /\ \E p \in PopOrders(Cur) :
        LET mst == min_spanning_tree(Cur, p) IN
        \E e \in EdgeIxs(mst) :
            /\ IsSome(find_edge(mst, directed, EdgeAt(mst, e).node[0],
                                               EdgeAt(mst, e).node[1]))
            /\ find_edge(mst, directed, EdgeAt(mst, e).node[1],
                                        EdgeAt(mst, e).node[0]) = None

\* The graph of the scenario: nodes A..J are 0..9, the edges are added in
\* the order given, each <<source, target, weight>>.
RECURSIVE AddEdges(_, _, _)
AddEdges(g, es, i) ==
    IF i > Len(es) THEN g
    ELSE AddEdges(add_edge(g, es[i][1], es[i][2], es[i][3]).g, es, i + 1)

ScenarioEdges ==
    << <<0, 1, 7>>, <<0, 3, 5>>, <<3, 1, 9>>, <<1, 2, 8>>, <<1, 4, 7>>,
       <<2, 4, 5>>, <<3, 4, 15>>, <<3, 5, 6>>, <<5, 4, 8>>, <<5, 6, 11>>,
       <<4, 6, 9>>, <<7, 8, 1>>, <<7, 9, 3>>, <<8, 9, 1>> >>

ScenarioGraph ==
    AddEdges(mst_nodes(Graph(<<>>, <<>>, FALSE),
                       [i \in 1..10 |-> [data |-> 1]], 1),
             ScenarioEdges, 1)

\* Two pop orders of the scenario's edges: equal weights by ascending and by
\* descending index.
ScenarioOrders ==
    { <<11, 13, 12, 1, 5, 7, 0, 4, 3, 8, 2, 10, 9, 6>>,
      <<13, 11, 12, 5, 1, 7, 4, 0, 8, 3, 10, 2, 9, 6>> }

\* C24, what the code does on the scenario: the tree has the eight edges
\* A-B, A-D, B-E, C-E, E-G, D-F, H-I, I-J; read as a directed graph the
\* lookup (E, C) is absent, the edge being stored C->E; read as an
\* undirected graph all eight lookups are present; (D, B) and (B, C) are
\* absent in both.
C24_MstScenario ==
    \A p \in ScenarioOrders :
        LET mst == min_spanning_tree(ScenarioGraph, p)
            Lookups == {<<0, 1>>, <<0, 3>>, <<1, 4>>, <<4, 2>>, <<4, 6>>,
                        <<3, 5>>, <<7, 8>>, <<8, 9>>}
        IN
        /\ p \in PopOrders(ScenarioGraph)
        /\ node_count(mst) = 10
        /\ edge_count(mst) = 8
        /\ \A q \in Lookups \ {<<4, 2>>} :
                IsSome(find_edge(mst, TRUE, q[1], q[2]))
        /\ find_edge(mst, TRUE, 4, 2) = None
        /\ IsSome(find_edge(mst, TRUE, 2, 4))
        /\ \A q \in Lookups : IsSome(find_edge(mst, FALSE, q[1], q[2]))
        /\ \A d \in BOOLEAN :
            /\ find_edge(mst, d, 3, 1) = None
            /\ find_edge(mst, d, 1, 2) = None


\* The arcs that edges(n) offers: every edge from its source to its target,
\* and back as well in an undirected graph.
Arcs(g, dir) ==
    {<<EdgeAt(g, e).node[0], EdgeAt(g, e).node[1], EdgeAt(g, e).data>> :
        e \in EdgeIxs(g)}
    \cup (IF dir THEN {}
          ELSE {<<EdgeAt(g, e).node[1], EdgeAt(g, e).node[0], EdgeAt(g, e).data>> :
                    e \in EdgeIxs(g)})

Least(S) == CHOOSE x \in S : \A y \in S : x <= y

\* The pairs <<node, weight>> of the walks from s of at most k arcs beyond
\* those of W.
RECURSIVE Walks(_, _, _, _)
Walks(g, dir, W, k) ==
    IF k = 0 THEN W
    ELSE Walks(g, dir,
               W \cup {<<q[2][2], q[1][2] + q[2][3]>> :
                        q \in {r \in W \X Arcs(g, dir) : r[2][1] = r[1][1]}},
               k - 1)

\* The weight of a shortest path from s to every node, -1 where there is
\* none: a shortest path has fewer arcs than there are nodes.
Shortest(g, dir, s) ==
    LET W == Walks(g, dir, {<<s, 0>>}, Len(g.nodes)) IN
    [v \in NodeIxs(g) |->
        IF \E p \in W : p[1] = v
        THEN Least({p[2] : p \in {q \in W : q[1] = v}})
        ELSE -1]

\* C25: with no target, the distance dijkstra returns for every node
\* reachable from the source is the weight of a shortest path, so that
\* dist(v) <= dist(u) + weight(u, v) for every edge reachable from the
\* source; with a reachable target the walk exits early and the target's
\* distance is the one computed without a target.
C25_Dijkstra ==
    \A s \in NodeIxs(Cur), tie \in TieOrders(Cur) :
        LET sc == dijkstra(Cur, directed, s, None, tie)
            sp == Shortest(Cur, directed, s)
        IN
        /\ \A v \in NodeIxs(Cur) :
            sp[v] >= 0 => (v \in DOMAIN sc /\ sc[v] = sp[v])
        /\ \A a \in Arcs(Cur, directed) :
            a[1] \in DOMAIN sc => (a[2] \in DOMAIN sc /\ sc[a[2]] <= sc[a[1]] + a[3])
        /\ \A t \in NodeIxs(Cur) :
            sp[t] >= 0 =>
                LET r == dijkstra_run(Cur, directed, s, Some(t), tie) IN
                /\ t \in DOMAIN r.scores
                /\ r.scores[t] = sc[t]
                /\ t \in r.visited
                /\ \A v \in r.visited : sp[v] >= 0 /\ sp[v] <= sp[t]

\* C25 witness: two parallel edges from a to b of different weights, the
\* heavier met first, and a third node out of reach; the distance of b is
\* the lighter weight, with and without target.
C25_Witness ==
    /\ Len(nodes) = 3
    /\ \E a, b, c \in NodeIxs(Cur) :
        /\ Cardinality({a, b, c}) = 3
        /\ Len(edges_of(Cur, directed, a)) = 2
        /\ edges_of(Cur, directed, a)[1] = <<b, 2>>
        /\ edges_of(Cur, directed, a)[2] = <<b, 1>>
        /\ \A tie \in TieOrders(Cur) :
            /\ dijkstra(Cur, directed, a, None, tie)[b] = 1
            /\ dijkstra(Cur, directed, a, Some(b), tie)[b] = 1
            /\ c \notin DOMAIN dijkstra(Cur, directed, a, None, tie)

\* The graph of test dijk: undirected, nodes A..F are 0..5.
DijkGraph ==
    AddEdges(mst_nodes(Graph(<<>>, <<>>, FALSE),
                       [i \in 1..6 |-> [data |-> 1]], 1),
             << <<0, 1, 7>>, <<2, 0, 9>>, <<0, 3, 14>>, <<1, 2, 10>>,
                <<3, 2, 2>>, <<3, 4, 9>>, <<1, 5, 15>>, <<2, 5, 11>>,
                <<4, 5, 6>> >>, 1)

\* C25 on the graph of test dijk, source A: dist(C) = 9, dist(E) = 20,
\* dist(F) = 20, and dist(C) = 9 with target C.
C25_DijkScenario ==
    \A tie \in {<<0, 1, 2, 3, 4, 5>>, <<5, 4, 3, 2, 1, 0>>} :
        /\ dijkstra(DijkGraph, FALSE, 0, None, tie)[2] = 9
        /\ dijkstra(DijkGraph, FALSE, 0, None, tie)[4] = 20
        /\ dijkstra(DijkGraph, FALSE, 0, None, tie)[5] = 20
        /\ dijkstra(DijkGraph, FALSE, 0, Some(2), tie)[2] = 9
        /\ dijkstra(DijkGraph, FALSE, 0, None, tie) = 
                Shortest(DijkGraph, FALSE, 0)


\* The nodes a walk from s has to visit through each view of a directed
\* graph, from the node pairs of the edges.
ViewReach(g, view, s) ==
    CASE view = "Graph" -> ReachFrom(g, {s})
      [] view = "Reversed" -> {n \in NodeIxs(g) : s \in ReachFrom(g, {n})}
      [] view = "Undirected" -> Component(g, s)

Views == {"Graph", "Reversed", "Undirected"}

\* C26: depth_first_search and the breadth-first walk started at s, the
\* callback never asking to stop, invoke the callback exactly once for each
\* node reachable from s and for no other node: along outgoing edges on a
\* directed graph, along incoming edges through Reversed, along edges in
\* both directions through Undirected.
C26_Traversal ==
    directed =>
        \A s \in NodeIxs(Cur), view \in Views :
            LET dfs == depth_first_search(Cur, directed, view, s)
                bfs == BreadthFirst(Cur, directed, view, s)
            IN
            /\ NoDup(dfs)
            /\ Range(dfs) = ViewReach(Cur, view, s)
            /\ NoDup(bfs)
            /\ Range(bfs) = ViewReach(Cur, view, s)

\* C26 witness: a directed graph with nodes a, b, c, two edges a->b and an
\* edge c->a: from a the walk visits a and b, through Reversed a and c,
\* through Undirected all three, each once.
C26_Witness ==
    /\ directed
    /\ \E a, b, c \in NodeIxs(Cur) :
        /\ Cardinality({a, b, c}) = 3
        /\ Cardinality(FromTo(Cur, a, b)) + Cardinality(FromTo(Cur, c, a)) = 2
        /\ FromTo(Cur, c, a) # {}
        /\ Len(edges) = 2
        /\ depth_first_search(Cur, directed, "Graph", a) = <<a, b>>
        /\ depth_first_search(Cur, directed, "Reversed", a) = <<a, c>>
        /\ Len(depth_first_search(Cur, directed, "Undirected", a)) = 3
        /\ Len(BreadthFirst(Cur, directed, "Undirected", a)) = 3

\* The graph of test dfs: directed, nodes H, I, J, K, Z are 0..4.
DfsGraph ==
    AddEdges(mst_nodes(Graph(<<>>, <<>>, FALSE),
                       [i \in 1..5 |-> [data |-> 1]], 1),
             << <<0, 1, 1>>, <<0, 2, 3>>, <<1, 2, 1>>, <<1, 3, 2>> >>, 1)

\* C26 on the graph of test dfs: 4 nodes visited from H, 1 from H through
\* Reversed, 3 from K through Reversed, 3 from I, 4 from I through
\* Undirected.
C26_DfsScenario ==
    /\ Len(depth_first_search(DfsGraph, TRUE, "Graph", 0)) = 4
    /\ Len(depth_first_search(DfsGraph, TRUE, "Reversed", 0)) = 1
    /\ Len(depth_first_search(DfsGraph, TRUE, "Reversed", 3)) = 3
    /\ Len(depth_first_search(DfsGraph, TRUE, "Graph", 1)) = 3
    /\ Len(depth_first_search(DfsGraph, TRUE, "Undirected", 1)) = 4
    /\ Len(BreadthFirst(DfsGraph, TRUE, "Graph", 0)) = 4


\* C28: a self-loop added by add_edge(a, a, w) is the head of a's outgoing
\* and of a's incoming chain, its two next links being the two former heads;
\* remove_edge on a self-loop takes it out of both chains, after which
\* find_edge(a, a) is absent when a had no other self-loop and every other
\* edge of a is still found, whatever the edge type and wherever the
\* self-loop is in the chains.
C28_SelfLoop ==
    /\ \A a \in NodeIxs(Cur), w \in WeightSet :
        LET r == add_edge(Cur, a, a, w) IN
        /\ ~r.panic
        /\ NodeAt(r.g, a).next = Arr2(r.ret, r.ret)
        /\ EdgeAt(r.g, r.ret).next = NodeAt(Cur, a).next
        /\ \A k \in {0, 1} :
            ChainOf(r.g, a, k) = <<r.ret>> \o ChainOf(Cur, a, k)
    /\ \A e \in EdgeIxs(Cur) :
        EdgeAt(Cur, e).node[0] = EdgeAt(Cur, e).node[1] =>
            LET a == EdgeAt(Cur, e).node[0]
                h == remove_edge(Cur, e).g
                m == Len(edges)
            IN
            /\ \A k \in {0, 1} :
                /\ e \in Range(ChainOf(Cur, a, k))
                /\ Len(ChainOf(h, a, k)) = Len(ChainOf(Cur, a, k)) - 1
                /\ \A j \in 1..Len(ChainOf(h, a, k)) :
                    Triple(h, ChainOf(h, a, k)[j]) \in
                        {Triple(Cur, f) : f \in EdgesAt(Cur, a, k) \ {e}}
            /\ FromTo(Cur, a, a) = {e} => find_edge(h, directed, a, a) = None
            /\ \A f \in Incident(Cur, a) \ {e} :
                IsSome(find_edge(h, directed, EdgeAt(Cur, f).node[0],
                                              EdgeAt(Cur, f).node[1]))

\* C28 witness: a self-loop on a that is the last entry of both chains of a,
\* under an edge a->b and an edge b->a added later; once it is removed
\* find_edge(a, a) is absent and both other edges are found.
C28_Witness ==
    \E a, b \in NodeIxs(Cur), e \in EdgeIxs(Cur) :
        /\ a # b
        /\ FromTo(Cur, a, a) = {e}
        /\ Len(ChainOf(Cur, a, 0)) = 2
        /\ Len(ChainOf(Cur, a, 1)) = 2
        /\ ChainOf(Cur, a, 0)[2] = e
        /\ ChainOf(Cur, a, 1)[2] = e
        /\ e # Len(edges) - 1
        /\ IsSome(find_edge(Cur, directed, a, a))
        /\ find_edge(remove_edge(Cur, e).g, directed, a, a) = None
        /\ IsSome(find_edge(remove_edge(Cur, e).g, directed, a, b))
        /\ IsSome(find_edge(remove_edge(Cur, e).g, directed, b, a))


\* C29: after any sequence of add_edge, update_edge, remove_edge and
\* remove_node calls every outgoing chain lists the surviving edges with
\* that source most recently added first, and every incoming chain the
\* surviving edges with that target likewise: add_edge only prepends, and
\* removals, with the index rewrite of the edge or node moved into the freed
\* slot, keep the order of the surviving entries.
C29_ChainOrder ==
    /\ \A n \in NodeIxs(Cur), k \in {0, 1} :
        ChainOf(Cur, n, k) = ByRecency(Cur, EdgesAt(Cur, n, k))
    /\ \A a, b \in NodeIxs(Cur) :
        LET r == add_edge(Cur, a, b, 1) IN
        \A n \in NodeIxs(Cur), k \in {0, 1} :
            ChainOf(r.g, n, k) =
                (IF n = EdgeAt(r.g, r.ret).node[k] THEN <<r.ret>> ELSE <<>>)
                    \o ChainOf(Cur, n, k)

\* C29 witness: after removals have moved edges to lower indices, a node has
\* three edges on its outgoing chain and the chain is not in descending
\* index order: the order is that of the additions.
C29_Witness ==
    /\ ~adds.only
    /\ \E n \in NodeIxs(Cur) :
        LET c == ChainOf(Cur, n, 0) IN
        /\ Len(c) = 3
        /\ c[1] < c[2] \/ c[2] < c[3]
        /\ EdgeAt(Cur, c[1]).stamp > EdgeAt(Cur, c[2]).stamp
        /\ EdgeAt(Cur, c[2]).stamp > EdgeAt(Cur, c[3]).stamp
    /\ \E n \in NodeIxs(Cur) : Len(ChainOf(Cur, n, 1)) >= 2


\* C30: in every state reached by the public operations no debug assertion
\* of the code can fail: inside remove_node every remove_edge of a chain
\* head returns present and every edge met on chain k of the relocated node
\* has the node's old index as node[k]; change_edge_links finds both
\* endpoints of the edge in range; min_spanning_tree ends with the input's
\* node count and fewer edges than nodes for every input that is not empty.
C30_DebugAsserts ==
    /\ dbg = FALSE
    /\ \A a \in NodeArgs : remove_node(Cur, a).g.dbg = FALSE
    /\ \A e \in EdgeArgs : remove_edge(Cur, e).g.dbg = FALSE
    /\ \A p \in PopOrders(Cur) :
        LET mst == min_spanning_tree(Cur, p) IN
        /\ mst.dbg = FALSE
        /\ node_count(Cur) > 0 =>
            /\ node_count(mst) = node_count(Cur)
            /\ edge_count(mst) < node_count(Cur)

\* C30 witness: a graph reached through removals where remove_node on a
\* node that is not the last has two incident edges to remove, one on each
\* chain, and the node that moves into its place has an edge of its own to
\* rewrite; no assertion fails.
C30_Witness ==
    /\ ~adds.only
    /\ dbg = FALSE
    /\ Len(edges) = 3
    /\ \E a \in NodeIxs(Cur) :
        /\ a # Len(nodes) - 1
        /\ Cardinality(Incident(Cur, a)) = 2
        /\ Len(ChainOf(Cur, a, 0)) >= 1
        /\ Len(ChainOf(Cur, a, 1)) >= 1
        /\ Incident(Cur, Len(nodes) - 1) \ Incident(Cur, a) # {}
        /\ remove_node(Cur, a).g.dbg = FALSE
        /\ edge_count(remove_node(Cur, a).g) = 1


\* C31: index_twice(slc, a, b) never yields two views of the same slot: it
\* yields Both(slot a, slot b) iff a # b and both are less than the length,
\* One(slot a) iff a = b and a is less than the length, and None in every
\* other case; add_edge, its only caller, panics exactly when it yields None
\* and otherwise writes only into the slots the views name.
C31_IndexTwice ==
    \A a \in NodeIxs(Cur) \cup BadNodeIxs, b \in NodeIxs(Cur) \cup BadNodeIxs :
        LET pair == index_twice(nodes, a, b) IN
        /\ pair.kind \in {"Both", "One", "None"}
        /\ pair.kind = "Both" <=> (a # b /\ a < Len(nodes) /\ b < Len(nodes))
        /\ pair.kind = "One" <=> (a = b /\ a < Len(nodes))
        /\ pair.kind = "None" <=> (a >= Len(nodes) \/ b >= Len(nodes))
        /\ pair.kind = "Both" => pair.a = a /\ pair.b = b /\ pair.a # pair.b
        /\ pair.kind = "One" => pair.a = a
        /\ \A w \in WeightSet :
            LET r == add_edge(Cur, a, b, w) IN
            /\ r.panic <=> pair.kind = "None"
            /\ ~r.panic =>
                /\ Len(r.g.nodes) = Len(nodes)
                /\ \A i \in 1..Len(nodes) :
                    r.g.nodes[i] # nodes[i] => i \in {pair.a + 1, pair.b + 1}

\* C31 witness: add_edge has acted on a view pair of each kind (a self-loop
\* and an edge between two nodes are stored, a call has panicked), and on
\* the graph reached index_twice yields each of the three results.
C31_Witness ==
    /\ status = "panic"
    /\ Len(nodes) >= 2
    /\ \E i \in 1..Len(edges) : edges[i].node[0] = edges[i].node[1]
    /\ \E i \in 1..Len(edges) : edges[i].node[0] # edges[i].node[1]
    /\ index_twice(nodes, 1, 1).kind = "One"
    /\ index_twice(nodes, 1, 0).kind = "Both"
    /\ index_twice(nodes, 1, EDGE_END).kind = "None"
    /\ index_twice(nodes, Len(nodes), Len(nodes)).kind = "None"

====
